---------------------------- MODULE Spec2Model ----------------------------
(*
  cfnlite: a model of the dependency resolver (lib/deps.py), the
  orchestrator and its symbol table (__main__.py), the reference resolver
  of the builders (ec2.py, lib/validators.py) and the property-name
  resolver (lib/utils.py).

  Python strings are sequences of one-character strings, so that strip(),
  lower(), split(), startswith() and the substring test are computed and
  not assumed.  A Python dict is a sequence of [k, v] entries in insertion
  order.
*)
EXTENDS Integers, Sequences, FiniteSets, TLC

VARIABLES
    resources,  \* deps: the `resources` mapping given to dep_graph
    graph,      \* deps: the DepGraph returned by dep_graph / given to topological_sort
    order,      \* deps: the list returned by topological_sort
    error,      \* deps: the exception raised by the last call (NoError if none)
    dpc,        \* deps: which call has been made
    vkey,       \* utils: the `property` given to property_validator
    vchoices,   \* utils: the `choices` given to property_validator
    vresult,    \* utils: the list property_validator returned
    vpc,        \* utils: whether property_validator has been called
    docName,    \* parse: doc["name"]
    SYMBOL_TABLE, \* parse: the symbol table of __main__.py
    TEMPLATE,   \* parse: the resources added to the template of __main__.py
    invoked,    \* parse: the resources a builder was invoked for, in order
    calls,      \* parse: the calls of the get_symbol callback, in order
    added,      \* parse: the kinds add_symbol was called with, in order
    ppc,        \* parse: how far parse has come
    nroot,      \* nested: the mapping given to nested_find / nested_update
    nkey,       \* nested: the key searched or updated
    nvalue,     \* nested: the update_value given to nested_update
    nfound,     \* nested: what the last nested_find returned
    nupdated,   \* nested: the mapping nested_update returned
    npc,        \* nested: which calls have been made
    eprops,     \* ec2: the ec2_properties given to a direct call of ec2.build
    epc,        \* ec2: whether ec2.build has been called directly
    aclprops,   \* networkacl: the nat_acl_properties given to a direct call of networkacl.build
    aclpc,      \* networkacl: whether networkacl.build has been called directly
    args,       \* main: the command-line arguments dry_run and output_file
    emitted,    \* main: what main printed or wrote, in order
    bstack,     \* backtrack: the calls of backtrack in progress, each with its s and the word it tries
    bmemo,      \* backtrack: memo
    bmatches,   \* backtrack: matches
    bret        \* backtrack: what the call that ended last returned

\* main called with neither --dry-run nor --output-file
NoArgs == [dry_run |-> FALSE, output_file |-> FALSE]

depsVars == <<resources, graph, order, error, dpc>>
utilsVars == <<vkey, vchoices, vresult, vpc>>
parseVars == <<docName, SYMBOL_TABLE, TEMPLATE, invoked, calls, added, ppc>>
nestedVars == <<nroot, nkey, nvalue, nfound, nupdated, npc>>
ec2Vars == <<eprops, epc>>
naclVars == <<aclprops, aclpc>>
mainVars == <<args, emitted>>
backtrackVars == <<bstack, bmemo, bmatches, bret>>
vars == <<depsVars, utilsVars, parseVars, nestedVars, ec2Vars, naclVars, mainVars,
          backtrackVars>>

-----------------------------------------------------------------------------
(* Python str operations *)

\* str.lower() on one character
LowerChar(c) ==
    CASE c = "A" -> "a" [] c = "B" -> "b" [] c = "C" -> "c" [] c = "D" -> "d"
      [] c = "E" -> "e" [] c = "F" -> "f" [] c = "G" -> "g" [] c = "H" -> "h"
      [] c = "I" -> "i" [] c = "J" -> "j" [] c = "K" -> "k" [] c = "L" -> "l"
      [] c = "M" -> "m" [] c = "N" -> "n" [] c = "O" -> "o" [] c = "P" -> "p"
      [] c = "Q" -> "q" [] c = "R" -> "r" [] c = "S" -> "s" [] c = "T" -> "t"
      [] c = "U" -> "u" [] c = "V" -> "v" [] c = "W" -> "w" [] c = "X" -> "x"
      [] c = "Y" -> "y" [] c = "Z" -> "z" [] OTHER -> c

\* str.lower()
Lower(s) == [i \in 1..Len(s) |-> LowerChar(s[i])]

\* the characters str.strip() and str.split() treat as whitespace
IsSpace(c) == c \in {" ", "\t", "\n"}

RECURSIVE LStrip(_)
LStrip(s) ==
    IF s # <<>> /\ IsSpace(Head(s)) THEN LStrip(Tail(s)) ELSE s

RECURSIVE RStrip(_)
RStrip(s) ==
    IF s # <<>> /\ IsSpace(s[Len(s)]) THEN RStrip(SubSeq(s, 1, Len(s) - 1)) ELSE s

\* str.strip()
Strip(s) == RStrip(LStrip(s))

\* str.startswith(prefix)
StartsWith(s, prefix) ==
    /\ Len(prefix) <= Len(s)
    /\ SubSeq(s, 1, Len(prefix)) = prefix

\* `sub in s` for strings
Contains(s, sub) ==
    \E i \in 0..(Len(s) - Len(sub)) : SubSeq(s, i + 1, i + Len(sub)) = sub

\* str.split(): the maximal runs of non-whitespace characters, in order
RECURSIVE SplitFrom(_, _, _)
SplitFrom(s, cur, acc) ==
    IF s = <<>>
    THEN IF cur = <<>> THEN acc ELSE Append(acc, cur)
    ELSE IF IsSpace(Head(s))
         THEN SplitFrom(Tail(s), <<>>, IF cur = <<>> THEN acc ELSE Append(acc, cur))
         ELSE SplitFrom(Tail(s), Append(cur, Head(s)), acc)

Split(s) == SplitFrom(s, <<>>, <<>>)

\* "".join(words)
RECURSIVE Join(_)
Join(words) == IF words = <<>> THEN <<>> ELSE Head(words) \o Join(Tail(words))

-----------------------------------------------------------------------------
(* Python dict operations: a dict is a sequence of entries [k, v] *)

DictKeys(d) == [i \in 1..Len(d) |-> d[i].k]

DictHas(d, key) == \E i \in 1..Len(d) : d[i].k = key

DictIndex(d, key) == CHOOSE i \in 1..Len(d) : d[i].k = key

DictGet(d, key) == d[DictIndex(d, key)].v

\* d[key] = value: replaces in place, or appends a new entry
DictSet(d, key, value) ==
    IF DictHas(d, key)
    THEN [d EXCEPT ![DictIndex(d, key)].v = value]
    ELSE Append(d, [k |-> key, v |-> value])

SeqToSet(s) == {s[i] : i \in 1..Len(s)}

-----------------------------------------------------------------------------
(* Python values of a raw property map *)

StrVal(s)   == [t |-> "str",  s |-> s,    items |-> <<>>]
ListVal(xs) == [t |-> "list", s |-> <<>>, items |-> xs]
IsStr(v)    == v.t = "str"

(* exceptions *)
NoError == [type |-> "none", msg |-> "", arg |-> <<>>]
ValueError(m, a) == [type |-> "ValueError", msg |-> m, arg |-> a]
KeyError(a) == [type |-> "KeyError", msg |-> "", arg |-> a]

-----------------------------------------------------------------------------
(* lib/utils.py: property_validator *)

\* utils.py:10-13
RESOURCE_ATTR ==
    << <<"C","r","e","a","t","i","o","n">>, <<"D","e","l","e","t","i","o","n">>,
       <<"D","e","p","e","n","d","s">>, <<"M","e","t","a","d","a","t","a">>,
       <<"O","n">>, <<"P","o","l","i","c","y">>, <<"R","e","p","l","a","c","e">>,
       <<"U","p","d","a","t","e">> >>

RECURSIVE Reverse(_)
Reverse(list) ==
    IF list = <<>> THEN <<>> ELSE Append(Reverse(Tail(list)), Head(list))

\* memo: a dict from strings to booleans, as a function
EmptyMemo == [x \in {} |-> FALSE]

RECURSIVE Backtrack(_, _, _, _)
RECURSIVE BacktrackLoop(_, _, _, _, _)

\* a slip of utils.py:81-84: the last word that s starts with is tried first
NextPrefixLast(s, lang, i) ==
    LET js == {j \in i..Len(lang) : StartsWith(s, Lower(lang[j]))}
    IN  IF js = {} THEN 0 ELSE CHOOSE j \in js : \A k \in js : j >= k

\* utils.py:81-84, the first word of lang, from word i on, that s starts
\* with (0 when there is none): the words before it fail the match and the
\* loop continues past them
NextPrefix(s, lang, i) ==
    LET js == {j \in i..Len(lang) : StartsWith(s, Lower(lang[j]))}
    IN  IF js = {} THEN 0 ELSE CHOOSE j \in js : \A k \in js : j <= k

\* a slip of utils.py:86-89: the word is appended to matches before its
\* remainder is tried, and stays there when the remainder fails
BacktrackLoopKeepsFailedWord(s, lang, i, memo, matches) ==
    LET j == NextPrefix(s, lang, i) IN
    IF j = 0 THEN [res |-> FALSE, memo |-> memo, matches |-> matches]
    ELSE LET r == Backtrack(SubSeq(s, Len(lang[j]) + 1, Len(s)), lang, memo,
                            Append(matches, lang[j]))
         IN  IF ~r.res
             THEN BacktrackLoop(s, lang, j + 1, r.memo, r.matches)
             ELSE r

\* utils.py:79-91, the loop over lang, from word i on
BacktrackLoop(s, lang, i, memo, matches) ==
    LET j == NextPrefix(s, lang, i) IN
    IF j = 0 THEN [res |-> FALSE, memo |-> memo, matches |-> matches]
    ELSE LET word == lang[j]
             r == Backtrack(SubSeq(s, Len(word) + 1, Len(s)), lang, memo, matches)
         IN  IF ~r.res
             THEN BacktrackLoop(s, lang, j + 1, r.memo, r.matches)
             ELSE [res |-> TRUE, memo |-> r.memo, matches |-> Append(r.matches, word)]

\* a slip of utils.py:70 and utils.py:93: the result is memoised under the
\* last character of s
BacktrackMemoLastChar(s, lang, memo, matches) ==
    IF s # <<>> /\ <<s[Len(s)]>> \in DOMAIN memo
    THEN [res |-> memo[<<s[Len(s)]>>], memo |-> memo, matches |-> matches]
    ELSE IF s = <<>> THEN [res |-> TRUE, memo |-> memo, matches |-> matches]
    ELSE LET r == BacktrackLoop(s, lang, 1, memo, matches)
         IN  [res |-> r.res, memo |-> (<<s[Len(s)]>> :> r.res) @@ r.memo, matches |-> r.matches]

\* utils.py:62-94
Backtrack(s, lang, memo, matches) ==
    IF s \in DOMAIN memo THEN [res |-> memo[s], memo |-> memo, matches |-> matches]
    ELSE IF s = <<>> THEN [res |-> TRUE, memo |-> memo, matches |-> matches]
    ELSE LET r == BacktrackLoop(s, lang, 1, memo, matches)
         IN  [res |-> r.res, memo |-> (s :> r.res) @@ r.memo, matches |-> r.matches]

\* a slip of utils.py:97: the matches returned in the order they were found
PropertyValidatorUnreversed(property, choices) ==
    Backtrack(Lower(property), choices \o RESOURCE_ATTR, EmptyMemo, <<>>).matches

\* a slip of utils.py:96: the key is not lower-cased
PropertyValidatorCaseSensitive(property, choices) ==
    Reverse(Backtrack(property, choices \o RESOURCE_ATTR, EmptyMemo, <<>>).matches)

\* utils.py:28-97
PropertyValidator(property, choices) ==
    Reverse(Backtrack(Lower(property), choices \o RESOURCE_ATTR, EmptyMemo, <<>>).matches)

-----------------------------------------------------------------------------
(* lib/deps.py: dep_graph *)

REF == <<"r", "e", "f">>

CycleMsg     == "There is a cycle!!"
MalformedMsg == "Keyword 'ref' must be followed by exactly one argument"
UndefinedMsg == "Undefined resource: "
SortCycleMsg == "Cycle found"

\* deps.py:43, negated: the values the loop of deps does not skip
DepsScans(value) ==
    IsStr(value) /\ Contains(Lower(Strip(value.s)), REF)

\* deps.py:46
DepsTokens(value) == Split(Strip(value.s))

\* a slip of deps.py:48: the upper bound on the tokens forgotten
DepsMalformedTooFewOnly(toks) == Len(toks) < 2

\* deps.py:48
DepsMalformed(toks) == Len(toks) < 2 \/ Len(toks) > 2

\* a slip of deps.py:32: the visit returns instead of raising
DepsCycleReturns(st) == st

\* deps.py:32
DepsCycleError(st) == [st EXCEPT !.error = ValueError(CycleMsg, <<>>)]

\* a slip of deps.py:57: the message names the referring resource
DepsUndefinedNamesReferrer(name, dep) == ValueError(UndefinedMsg, name)

\* deps.py:57
DepsUndefinedError(name, dep) == ValueError(UndefinedMsg, dep)

\* resources[name].values()
ValuesOf(res, name) ==
    LET props == DictGet(res, name) IN [i \in 1..Len(props) |-> props[i].v]

\* deps.py:62  graph[name].append(dep)
GraphAppend(g, name, dep) == DictSet(g, name, Append(DictGet(g, name), dep))

RECURSIVE Deps(_, _, _)
RECURSIVE DepsLoop(_, _, _, _, _)

\* deps.py:42-62, the loop over the values of one resource, from value i on
DepsLoop(name, res, vals, i, st) ==
    IF i > Len(vals) THEN st
    ELSE IF ~DepsScans(vals[i]) THEN DepsLoop(name, res, vals, i + 1, st)
    ELSE LET toks == DepsTokens(vals[i]) IN
         IF DepsMalformed(toks)
         THEN [st EXCEPT !.error = ValueError(MalformedMsg, <<>>)]
         ELSE LET dep == toks[2] IN
              IF ~DictHas(res, dep)
              THEN [st EXCEPT !.error = DepsUndefinedError(name, dep)]
              ELSE LET st2 == Deps(dep, res, st) IN
                   IF st2.error # NoError THEN st2
                   ELSE DepsLoop(name, res, vals, i + 1,
                            [st2 EXCEPT !.graph = GraphAppend(st2.graph, name, dep)])

\* deps.py:8-67
Deps(name, res, st) ==
    IF name \in st.path
    THEN DepsCycleError(st)
    ELSE IF name \in st.visited THEN st
    ELSE LET g1  == DictSet(st.graph, name,
                        IF DictHas(st.graph, name) THEN DictGet(st.graph, name) ELSE <<>>)
             st1 == [st EXCEPT !.graph = g1, !.path = st.path \cup {name}]
             st2 == DepsLoop(name, res, ValuesOf(res, name), 1, st1)
         IN  IF st2.error # NoError THEN st2
             ELSE [st2 EXCEPT !.path = st2.path \ {name},
                              !.visited = st2.visited \cup {name}]

\* deps.py:83-86, the loop over the resources, from resource i on
RECURSIVE DepGraphLoop(_, _, _)
DepGraphLoop(res, i, st) ==
    IF i > Len(res) \/ st.error # NoError THEN st
    ELSE IF res[i].k \in st.visited THEN DepGraphLoop(res, i + 1, st)
    ELSE DepGraphLoop(res, i + 1, Deps(res[i].k, res, [st EXCEPT !.path = {}]))

\* deps.py:70-87: [graph, error]; the graph is returned only when error = NoError
DepGraph(res) ==
    LET st == DepGraphLoop(res, 1,
                  [graph |-> <<>>, visited |-> {}, path |-> {}, error |-> NoError])
    IN  [graph |-> IF st.error = NoError THEN st.graph ELSE <<>>, error |-> st.error]

-----------------------------------------------------------------------------
(* lib/deps.py: topological_sort *)

\* a slip of deps.py:126: the resource is not marked as visited
SorterFinishUnmarked(st, resource) ==
    [st EXCEPT !.order = Append(st.order, resource)]

\* a slip of deps.py:127: the resource is put in front of its dependencies
SorterFinishInFront(st, resource) ==
    [st EXCEPT !.visited = st.visited \cup {resource},
               !.order = <<resource>> \o st.order]

\* deps.py:126-127
SorterFinish(st, resource) ==
    [st EXCEPT !.visited = st.visited \cup {resource},
               !.order = Append(st.order, resource)]

RECURSIVE Sorter(_, _, _)
RECURSIVE SorterLoop(_, _, _, _)

\* deps.py:120-122, the loop over graph[resource], from entry i on
SorterLoop(g, adj, i, st) ==
    IF i > Len(adj) \/ st.error # NoError THEN st
    ELSE SorterLoop(g, adj, i + 1, Sorter(adj[i], g, st))

\* deps.py:90-127
Sorter(resource, g, st) ==
    IF resource \in st.path
    THEN [st EXCEPT !.error = ValueError(SortCycleMsg, <<>>)]
    ELSE IF resource \in st.visited THEN st
    ELSE IF ~DictHas(g, resource)
    THEN [st EXCEPT !.error = KeyError(resource)]     \* graph[resource]
    ELSE LET st1 == [st EXCEPT !.path = st.path \cup {resource}]
             st2 == SorterLoop(g, DictGet(g, resource), 1, st1)
         IN  IF st2.error # NoError THEN st2
             ELSE SorterFinish([st2 EXCEPT !.path = st2.path \ {resource}], resource)

\* deps.py:144-145
RECURSIVE TopSortLoop(_, _, _)
TopSortLoop(g, i, st) ==
    IF i > Len(g) \/ st.error # NoError THEN st
    ELSE TopSortLoop(g, i + 1, Sorter(g[i].k, g, st))

\* deps.py:130-147: [order, error]; the order is returned only when error = NoError
TopologicalSort(g) ==
    LET st == TopSortLoop(g, 1,
                  [order |-> <<>>, visited |-> {}, path |-> {}, error |-> NoError])
    IN  [order |-> IF st.error = NoError THEN st.order ELSE <<>>, error |-> st.error]

-----------------------------------------------------------------------------
(* Inputs of the dependency resolver *)

\* the resource names of the fixture of tests/test_deps.py (securitygroups
\* shortened to sg, as in the end-to-end example)
EC2 == <<"e", "c", "2">>
S3  == <<"s", "3">>
SG  == <<"s", "g">>
EC3 == <<"e", "c", "3">>      \* never declared (test_deps.py:88)
SP  == <<" ">>

ResourceNames == <<EC2, S3, SG>>

\* the most property values one resources mapping holds, over all its resources
MaxValues == 3

\* property values: references, malformed references, and values that are
\* no references
DepValues ==
    << StrVal(REF \o SP \o EC2),                  \* "ref ec2"
       StrVal(REF \o SP \o S3),                   \* "ref s3"
       StrVal(REF \o SP \o SG),                   \* "ref sg"
       StrVal(SP \o <<"R", "E", "F">> \o SP \o SP \o S3 \o SP),   \* " REF  s3 "
       StrVal(REF),                               \* "ref"
       StrVal(REF \o SP \o EC3 \o SP \o S3),      \* "ref ec3 s3"
       StrVal(<<"t", "2">>),                      \* "t2"
       StrVal(<<"p">> \o REF \o SP \o S3),        \* "pref s3"
       ListVal(<<StrVal(REF \o SP \o EC2)>>) >>   \* ["ref ec2"]

\* property keys do not matter to dep_graph: the i-th property is keyed k<i>
PropKey(i) == <<"k", CASE i = 1 -> "1" [] i = 2 -> "2" [] i = 3 -> "3" [] OTHER -> "4">>

\* The m values of a mapping of n entries are dealt to its entries by owner,
\* a non-decreasing map from 1..m to 1..n: entry r holds, in order, the
\* values whose owner is r.
NonDecreasing(owner) ==
    \A i \in 1..(Len(owner) - 1) : owner[i] <= owner[i + 1]

RECURSIVE Dealt(_, _, _, _)
Dealt(owner, val, r, i) ==
    IF i > Len(owner) THEN <<>>
    ELSE IF owner[i] = r THEN <<val[i]>> \o Dealt(owner, val, r, i + 1)
    ELSE Dealt(owner, val, r, i + 1)

\* the resources mapping of the first n names, with the values dealt to them
ResourcesOf(n, owner, val) ==
    [r \in 1..n |->
        [k |-> ResourceNames[r],
         v |-> LET vs == Dealt(owner, val, r, 1)
               IN  [i \in 1..Len(vs) |-> [k |-> PropKey(i), v |-> DepValues[vs[i]]]]]]

\* a graph given to topological_sort directly (test_deps.py:138-147): any
\* adjacency lists over the three names
GraphOf(n, owner, val) ==
    [r \in 1..n |->
        [k |-> ResourceNames[r],
         v |-> LET vs == Dealt(owner, val, r, 1)
               IN  [i \in 1..Len(vs) |-> ResourceNames[vs[i]]]]]

-----------------------------------------------------------------------------
(* The calls of lib/deps.py *)

InitDeps ==
    /\ docName = <<>> /\ SYMBOL_TABLE = <<>> /\ TEMPLATE = <<>> /\ invoked = <<>>
    /\ calls = <<>> /\ added = <<>> /\ ppc = "idle"
    /\ nroot = <<>> /\ nkey = <<>> /\ nvalue = StrVal(<<>>) /\ nfound = StrVal(<<>>)
    /\ nupdated = <<>> /\ npc = "idle"
    /\ eprops = <<>> /\ epc = "idle"
    /\ aclprops = <<>> /\ aclpc = "idle"
    /\ args = NoArgs /\ emitted = <<>>
    /\ bstack = <<>> /\ bmemo = <<>> /\ bmatches = <<>> /\ bret = "none"
    /\ vkey = <<>> /\ vchoices = <<>> /\ vresult = <<>> /\ vpc = "idle"
    /\ order = <<>>
    /\ error = NoError
    /\ \E n \in 1..Len(ResourceNames), m \in 0..MaxValues :
       \E owner \in [1..m -> 1..n] :
          /\ NonDecreasing(owner)
          /\ \/ /\ dpc = "resources"
                /\ \E val \in [1..m -> 1..Len(DepValues)] :
                      resources = ResourcesOf(n, owner, val)
                /\ graph = <<>>
             \/ /\ dpc = "graph"
                /\ resources = <<>>
                /\ \E val \in [1..m -> 1..Len(ResourceNames)] :
                      graph = GraphOf(n, owner, val)

\* graph = dep_graph(resources)
CallDepGraph ==
    /\ dpc = "resources"
    /\ LET r == DepGraph(resources) IN
       /\ graph' = r.graph
       /\ error' = r.error
       /\ dpc' = IF r.error = NoError THEN "graph_built" ELSE "dep_graph_raised"
    /\ UNCHANGED <<resources, order, utilsVars, parseVars, nestedVars, ec2Vars, naclVars, mainVars, backtrackVars>>

\* order = topological_sort(graph)
CallTopologicalSort ==
    /\ dpc \in {"graph", "graph_built"}
    /\ LET r == TopologicalSort(graph) IN
       /\ order' = r.order
       /\ error' = r.error
       /\ dpc' = IF r.error = NoError THEN "sorted" ELSE "sort_raised"
    /\ UNCHANGED <<resources, graph, utilsVars, parseVars, nestedVars, ec2Vars, naclVars, mainVars, backtrackVars>>

NextDeps == CallDepGraph \/ CallTopologicalSort

SpecDeps == InitDeps /\ [][NextDeps]_vars

-----------------------------------------------------------------------------
(* What the specification calls a reference (spec.md 4.3, 4.4, 6) *)

\* a scalar that, trimmed, begins case-insensitively with the marker
IsReference(value) ==
    IsStr(value) /\ StartsWith(Lower(Strip(value.s)), REF)

\* ... followed by exactly one more token
WellFormedRef(value) == IsReference(value) /\ Len(Split(value.s)) = 2
MalformedRef(value)  == IsReference(value) /\ Len(Split(value.s)) # 2
RefTarget(value)     == Split(value.s)[2]

Declared(res) == SeqToSet(DictKeys(res))

\* all property values of a resources mapping
AllValues(res) == UNION { SeqToSet(ValuesOf(res, n)) : n \in Declared(res) }

\* the targets of the scalar reference properties of one resource, in order
RECURSIVE TargetsFrom(_, _)
TargetsFrom(vals, i) ==
    IF i > Len(vals) THEN <<>>
    ELSE IF WellFormedRef(vals[i]) THEN <<RefTarget(vals[i])>> \o TargetsFrom(vals, i + 1)
    ELSE TargetsFrom(vals, i + 1)

RefTargets(res, name) == TargetsFrom(ValuesOf(res, name), 1)

\* the scalar-reference relation among the declared resources
RefRelation(res) ==
    { <<a, b>> \in Declared(res) \X Declared(res) : b \in SeqToSet(RefTargets(res, a)) }

\* the edges of an adjacency-list graph
GraphEdges(g) ==
    { <<a, b>> \in SeqToSet(DictKeys(g)) \X UNION { SeqToSet(g[i].v) : i \in 1..Len(g) } :
         b \in SeqToSet(DictGet(g, a)) }

\* a relation has a cycle when its transitive closure relates a node to itself
Compose(R) ==
    { <<pq[1][1], pq[2][2]>> : pq \in { pq \in R \X R : pq[1][2] = pq[2][1] } }

RECURSIVE Closure(_, _)
Closure(R, k) == IF k = 0 THEN R ELSE Closure(R \cup Compose(R), k - 1)

HasCycle(R) == \E p \in Closure(R, Cardinality(R)) : p[1] = p[2]

\* every adjacency entry of the graph is a key of the graph
GraphClosed(g) ==
    \A i \in 1..Len(g) : SeqToSet(g[i].v) \subseteq SeqToSet(DictKeys(g))

\* d occurs in the list, and strictly before every occurrence of r
StrictlyBefore(list, d, r) ==
    /\ \E j \in 1..Len(list) : list[j] = r
    /\ \A j \in 1..Len(list) : list[j] = r => \E i \in 1..(j - 1) : list[i] = d

AfterDepGraph == dpc \in {"graph_built", "dep_graph_raised"}
AfterSort     == dpc \in {"sorted", "sort_raised"}

-----------------------------------------------------------------------------
(* Claims about lib/deps.py, checked under SpecDeps *)

\* C1: for every acyclic graph whose adjacency entries are all keys,
\* topological_sort returns, and in the returned list every dependency of a
\* resource appears strictly before that resource.
C1_DependenciesFirst ==
    (AfterSort /\ GraphClosed(graph) /\ ~HasCycle(GraphEdges(graph)))
        => /\ dpc = "sorted"
           /\ \A p \in GraphEdges(graph) : StrictlyBefore(order, p[2], p[1])

\* C1 happens: a chain a -> b -> c whose dependent a is the first key of the
\* graph comes out as c, b, a.
C1_Witness ==
    /\ dpc = "sorted"
    /\ graph = <<[k |-> EC2, v |-> <<S3>>], [k |-> S3, v |-> <<SG>>], [k |-> SG, v |-> <<>>]>>
    /\ order = <<SG, S3, EC2>>

\* C2: dep_graph raises ValueError and returns no graph whenever the
\* scalar-reference relation among the declared resources has a cycle, of
\* any length.
C2_CycleRaises ==
    (AfterDepGraph /\ HasCycle(RefRelation(resources)))
        => /\ dpc = "dep_graph_raised"
           /\ error.type = "ValueError"
           /\ graph = <<>>

\* C2 happens: a cycle through all three resources raises the cycle error.
C2_Witness ==
    /\ dpc = "dep_graph_raised"
    /\ error = ValueError(CycleMsg, <<>>)
    /\ RefRelation(resources) = {<<EC2, S3>>, <<S3, SG>>, <<SG, EC2>>}

\* C5: dep_graph returns a mapping whose keys are exactly the declared
\* resource names, each with exactly the targets of that resource's scalar
\* reference properties; {A: no references, B: "ref A"} gives {A: [], B: [A]}.
C5_GraphIsTheReferences ==
    dpc = "graph_built"
        => /\ SeqToSet(DictKeys(graph)) = Declared(resources)
           /\ \A n \in Declared(resources) : DictGet(graph, n) = RefTargets(resources, n)

\* C6: a property value that is no scalar beginning, trimmed and
\* case-insensitively, with the marker creates no edge and raises no error:
\* a resources mapping without such a value gives a graph without edges.
C6_OnlyMarkedValuesAreReferences ==
    (AfterDepGraph /\ \A v \in AllValues(resources) : ~IsReference(v))
        => /\ dpc = "graph_built"
           /\ \A i \in 1..Len(graph) : graph[i].v = <<>>
\* the well-formed references of a resources mapping that name no declared
\* resource
UndefinedTargets(res) ==
    { RefTarget(v) : v \in { v \in AllValues(res) : WellFormedRef(v) } } \ Declared(res)

\* the values dep_graph splits into tokens: the scalars holding the marker
\* anywhere
HoldsMarker(value) == IsStr(value) /\ Contains(Lower(value.s), REF)

\* the second tokens of the two-token values holding the marker
NamedBy(res, name) ==
    { Split(v.s)[2] :
        v \in { v \in SeqToSet(ValuesOf(res, name)) : HoldsMarker(v) /\ Len(Split(v.s)) = 2 } }

NamedRelation(res) ==
    { <<a, b>> \in Declared(res) \X Declared(res) : b \in NamedBy(res, a) }

\* C7 as claimed: dep_graph raises ValueError "Undefined resource: <name>"
\* whenever a well-formed reference names a target that is no declared
\* resource.
C7_UndefinedAlwaysNamed ==
    (AfterDepGraph /\ UndefinedTargets(resources) # {})
        => /\ dpc = "dep_graph_raised"
           /\ error.type = "ValueError"
           /\ error.msg = UndefinedMsg
           /\ error.arg \in UndefinedTargets(resources)

\* C7 as amended: with such a reference dep_graph raises ValueError; a
\* message "Undefined resource: <name>" names a name that is no declared
\* resource; and the message is that one when no value holding the marker
\* has other than two tokens and the named resources form no cycle (either
\* would raise its own ValueError if scanned first).
C7_UndefinedRaises ==
    (AfterDepGraph /\ UndefinedTargets(resources) # {})
        => /\ dpc = "dep_graph_raised"
           /\ error.type = "ValueError"
           /\ error.msg = UndefinedMsg =>
                 /\ error.arg \notin Declared(resources)
                 /\ \E n \in Declared(resources) : error.arg \in NamedBy(resources, n)
           /\ ( /\ \A v \in AllValues(resources) : HoldsMarker(v) => Len(Split(v.s)) = 2
                /\ ~HasCycle(NamedRelation(resources)) )
                 => error.msg = UndefinedMsg

\* C7 happens: the only resource refers to s3, which is not declared.
C7_Witness ==
    /\ dpc = "dep_graph_raised"
    /\ Declared(resources) = {EC2}
    /\ UndefinedTargets(resources) = {S3}
    /\ error = ValueError(UndefinedMsg, S3)

\* C8: a reference with no token or with two or more tokens after the marker
\* raises the malformed-reference ValueError, as soon as it is scanned and
\* before the undefined-resource check of that value; references with exactly
\* one token after the marker are accepted.
C8_MalformedReference ==
    AfterDepGraph
        => /\ (\E v \in AllValues(resources) : MalformedRef(v))
                 => dpc = "dep_graph_raised" /\ error.type = "ValueError"
           \* the first value scanned: nothing else in the mapping matters
           /\ (resources[1].v # <<>> /\ MalformedRef(resources[1].v[1].v))
                 => error = ValueError(MalformedMsg, <<>>)
           \* only well-formed references to declared resources, no cycle
           /\ ( /\ \A v \in AllValues(resources) : HoldsMarker(v) => WellFormedRef(v)
                /\ UndefinedTargets(resources) = {}
                /\ ~HasCycle(RefRelation(resources)) )
                 => dpc = "graph_built"

\* C8 happens: "ref ec3 s3", whose first token names no resource, is the first
\* value scanned and raises the malformed-reference error.
C8_Witness ==
    /\ dpc = "dep_graph_raised"
    /\ resources[1].v # <<>>
    /\ resources[1].v[1].v = StrVal(REF \o SP \o EC3 \o SP \o S3)
    /\ error = ValueError(MalformedMsg, <<>>)

-----------------------------------------------------------------------------
(* The calls of property_validator *)

\* the longest key given to property_validator
MaxKeyLen == 4

\* the characters of the keys: the letters of the vocabularies below, in
\* either case, and a character no word holds (test_utils.py:67-68)
KeyChars == {"s", "o", "n", "S", "O", "N", "-"}

\* vocabularies whose words are prefixes of one another, in either order,
\* as Group and Groups are in the vocabulary of ec2.py:69-76
Vocabularies ==
    { <<>>,
      << <<"S","o">>, <<"S","o","n">> >>,
      << <<"S","o","n">>, <<"S","o">> >>,
      << <<"N","o">>, <<"N">>, <<"O","n","s">> >>,
      << <<"S">>, <<"S","o">>, <<"N","o","s">>, <<"O">> >>,
      << <<"s","O">>, <<"N","N">> >>,
      << <<"N">>, <<"O">>, <<"N","o">>, <<"N","o","o","s">> >> }

InitUtils ==
    /\ docName = <<>> /\ SYMBOL_TABLE = <<>> /\ TEMPLATE = <<>> /\ invoked = <<>>
    /\ calls = <<>> /\ added = <<>> /\ ppc = "idle"
    /\ nroot = <<>> /\ nkey = <<>> /\ nvalue = StrVal(<<>>) /\ nfound = StrVal(<<>>)
    /\ nupdated = <<>> /\ npc = "idle"
    /\ eprops = <<>> /\ epc = "idle"
    /\ aclprops = <<>> /\ aclpc = "idle"
    /\ args = NoArgs /\ emitted = <<>>
    /\ bstack = <<>> /\ bmemo = <<>> /\ bmatches = <<>> /\ bret = "none"
    /\ resources = <<>> /\ graph = <<>> /\ order = <<>> /\ error = NoError /\ dpc = "idle"
    /\ vpc = "key"
    /\ \E n \in 0..MaxKeyLen : vkey \in [1..n -> KeyChars]
    /\ vchoices \in Vocabularies
    /\ vresult = <<>>

\* vresult = property_validator(vkey, vchoices)
CallPropertyValidator ==
    /\ vpc = "key"
    /\ vresult' = PropertyValidator(vkey, vchoices)
    /\ vpc' = "validated"
    /\ UNCHANGED <<vkey, vchoices, depsVars, parseVars, nestedVars, ec2Vars, naclVars, mainVars, backtrackVars>>

NextUtils == CallPropertyValidator

SpecUtils == InitUtils /\ [][NextUtils]_vars

\* C10: whenever property_validator returns a non-empty list, every element
\* is a word of the choices or a global attribute word, in its declared
\* casing, and the elements concatenated equal the key case-insensitively.
C10_WordsSpellTheKey ==
    (vpc = "validated" /\ vresult # <<>>)
        => /\ SeqToSet(vresult) \subseteq SeqToSet(vchoices) \cup SeqToSet(RESOURCE_ATTR)
           /\ Lower(Join(vresult)) = Lower(vkey)

\* C10 happens: "sOoN" is spelt from a word of the choices and the global
\* attribute word On.
C10_Witness ==
    /\ vpc = "validated"
    /\ vkey = <<"s", "O", "o", "N">>
    /\ vresult = << <<"S","o">>, <<"O","n">> >>

-----------------------------------------------------------------------------
(* __main__.py: the symbol table, the template and the callbacks *)

\* str.upper(), one character
UpperChar(c) ==
    CASE c = "a" -> "A" [] c = "b" -> "B" [] c = "c" -> "C" [] c = "d" -> "D"
      [] c = "e" -> "E" [] c = "f" -> "F" [] c = "g" -> "G" [] c = "h" -> "H"
      [] c = "i" -> "I" [] c = "j" -> "J" [] c = "k" -> "K" [] c = "l" -> "L"
      [] c = "m" -> "M" [] c = "n" -> "N" [] c = "o" -> "O" [] c = "p" -> "P"
      [] c = "q" -> "Q" [] c = "r" -> "R" [] c = "s" -> "S" [] c = "t" -> "T"
      [] c = "u" -> "U" [] c = "v" -> "V" [] c = "w" -> "W" [] c = "x" -> "X"
      [] c = "y" -> "Y" [] c = "z" -> "Z"
      [] OTHER -> c

\* str.upper()
Upper(s) == [i \in 1..Len(s) |-> UpperChar(s[i])]

\* __main__.py:39-44, the keys of DISPATCH
DISPATCH == << <<"e", "c", "2">>, <<"p", "o", "l", "i", "c", "y">>, <<"r", "o", "l", "e">>, <<"s", "e", "c", "u", "r", "i", "t", "y", "g", "r", "o", "u", "p", "s">> >>

\* the placeholder _init_symbol_table registers (__main__.py:111)
None == [type |-> "NoneType", title |-> <<>>, props |-> <<>>]

\* a troposphere resource object: its class, its title and its properties
Artifact(type, title, props) == [type |-> type, title |-> title, props |-> props]

\* troposphere.Ref(target)
RefVal(target) == [t |-> "Ref", s |-> <<>>, items |-> <<target>>]

UnsupportedMsg == "is unsupported to spelt wrong"
NoNameMsg == "A CNFLite file must have a name field"
DuplicateTitleMsg == "duplicate key detected"

\* __main__.py:78-85  SYMBOL_TABLE[resource]: the entry, or KeyError when
\* the table has no such key
get_symbol(table, resource) ==
    IF DictHas(table, resource)
    THEN [error |-> NoError, value |-> DictGet(table, resource)]
    ELSE [error |-> KeyError(resource), value |-> None]

\* __main__.py:69-75  SYMBOL_TABLE[resource] = ref
add_symbol(table, resource, ref) == DictSet(table, resource, ref)

\* __main__.py:88-94  TEMPLATE.add_resource(resource); troposphere's Template
\* raises ValueError when the template already holds a resource of that title
add_resource(template, resource) ==
    IF \E i \in 1..Len(template) : template[i].title = resource.title
    THEN [error |-> ValueError(DuplicateTitleMsg, resource.title), template |-> template]
    ELSE [error |-> NoError, template |-> Append(template, resource)]

\* __main__.py:97-111, the loop over resources.keys(), from key i on: the
\* entries registered before an unsupported key stay registered
\* a slip of __main__.py:106-108: every key is registered, the test for an
\* unsupported kind is left to the loop of parse
RECURSIVE InitSymbolTableLoopUnchecked(_, _, _)
InitSymbolTableLoopUnchecked(res, i, table) ==
    IF i > Len(res) THEN [error |-> NoError, table |-> table]
    ELSE InitSymbolTableLoopUnchecked(res, i + 1, DictSet(table, Lower(res[i].k), None))

RECURSIVE InitSymbolTableLoop(_, _, _)
InitSymbolTableLoop(res, i, table) ==
    IF i > Len(res) THEN [error |-> NoError, table |-> table]
    ELSE IF Lower(res[i].k) \notin SeqToSet(DISPATCH)
    THEN [error |-> ValueError(UnsupportedMsg, res[i].k), table |-> table]
    ELSE InitSymbolTableLoop(res, i + 1, DictSet(table, Lower(res[i].k), None))

\* __main__.py:152  topological_sort(graph), unless dep_graph raised
SortOf(g) ==
    IF g.error # NoError THEN [order |-> <<>>, error |-> g.error]
    ELSE TopologicalSort(g.graph)

\* __main__.py:138-152  topological_sort(dep_graph(resources))
processing_order(res) == SortOf(DepGraph(res))

-----------------------------------------------------------------------------
(* ec2.py: the builder of EC2 instances *)

\* ec2.py:53-59
EC2_EXPECTS_LIST ==
    { <<"B", "l", "o", "c", "k", "D", "e", "v", "i", "c", "e", "M", "a", "p", "p", "i", "n", "g", "s">>,
      <<"N", "e", "t", "w", "o", "r", "k", "I", "n", "t", "e", "r", "f", "a", "c", "e", "s">>,
      <<"S", "e", "c", "u", "r", "i", "t", "y", "G", "r", "o", "u", "p", "I", "d", "s">>,
      <<"S", "e", "c", "u", "r", "i", "t", "y", "G", "r", "o", "u", "p", "s">>,
      <<"V", "o", "l", "u", "m", "e", "s">> }

\* ec2.py:69-76
EC2_LANG ==
    << <<"A", "d", "d", "i", "t", "i", "o", "n", "a", "l">>,
       <<"A", "d", "d", "r", "e", "s", "s">>,
       <<"A", "f", "f", "i", "n", "i", "t", "y">>,
       <<"A", "p", "i">>,
       <<"A", "r", "n">>,
       <<"A", "v", "a", "i", "l", "a", "b", "i", "l", "i", "t", "y">>,
       <<"B", "e", "h", "a", "v", "i", "o", "r">>,
       <<"B", "l", "o", "c", "k">>,
       <<"D", "e", "v", "i", "c", "e">>,
       <<"D", "i", "s", "a", "b", "l", "e">>,
       <<"E", "b", "s">>,
       <<"G", "r", "o", "u", "p">>,
       <<"G", "r", "o", "u", "p", "s">>,
       <<"H", "o", "s", "t">>,
       <<"I", "a", "m">>,
       <<"I", "d">>,
       <<"I", "d", "s">>,
       <<"I", "m", "a", "g", "e">>,
       <<"I", "n", "f", "o">>,
       <<"I", "n", "i", "t", "i", "a", "t", "e", "d">>,
       <<"I", "n", "s", "t", "a", "n", "c", "e">>,
       <<"I", "n", "t", "e", "r", "f", "a", "c", "e", "s">>,
       <<"I", "p">>,
       <<"K", "e", "r", "n", "e", "l">>,
       <<"K", "e", "y">>,
       <<"M", "a", "p", "p", "i", "n", "g", "s">>,
       <<"M", "o", "n", "i", "t", "o", "r", "i", "n", "g">>,
       <<"N", "a", "m", "e">>,
       <<"N", "e", "t", "w", "o", "r", "k">>,
       <<"O", "p", "t", "i", "m", "i", "z", "e", "d">>,
       <<"P", "l", "a", "c", "e", "m", "e", "n", "t">>,
       <<"P", "r", "i", "v", "a", "t", "e">>,
       <<"P", "r", "o", "f", "i", "l", "e">>,
       <<"R", "e", "s", "o", "u", "r", "c", "e">>,
       <<"S", "e", "c", "u", "r", "i", "t", "y">>,
       <<"S", "h", "u", "t", "d", "o", "w", "n">>,
       <<"S", "u", "b", "n", "e", "t">>,
       <<"T", "e", "n", "a", "n", "c", "y">>,
       <<"T", "e", "r", "m", "i", "n", "a", "t", "i", "o", "n">>,
       <<"T", "y", "p", "e">>,
       <<"V", "o", "l", "u", "m", "e", "s">>,
       <<"Z", "o", "n", "e">> >>

\* ec2.py:79-91
DefaultEc2Params ==
    << [k |-> <<"I", "m", "a", "g", "e", "I", "d">>, v |-> StrVal(<<"a", "m", "i", "-", "0", "b", "4", "5", "a", "e", "6", "6", "6", "6", "8", "8", "6", "5", "c", "d", "6">>)],
       [k |-> <<"I", "n", "s", "t", "a", "n", "c", "e", "T", "y", "p", "e">>, v |-> StrVal(<<"t", "2", ".", "m", "i", "c", "r", "o">>)],
       [k |-> <<"S", "e", "c", "u", "r", "i", "t", "y", "G", "r", "o", "u", "p", "s">>, v |-> ListVal(<<StrVal(<<"d", "e", "f", "a", "u", "l", "t">>)>>)] >>

DuplicatePropMsg == "Each property can only be used once. Offending prop:"
InvalidEc2AttrMsg == "is an invalid attribute for EC2's."

\* the record of one call of the get_symbol callback: the argument, whether
\* the reference was a scalar value or an element of a list, what the call
\* returned or raised, and the kinds add_symbol had been called with so far
Lookup(arg, form, sym, sofar) ==
    [arg |-> arg, form |-> form, error |-> sym.error, value |-> sym.value,
     added |-> sofar]

\* item.strip().startswith("ref")  (ec2.py:131, ec2.py:154)
Ec2IsRef(value) == IsStr(value) /\ StartsWith(Strip(value.s), REF)

\* ec2.py:94-115  _handle_refs: [error, value, calls]
Ec2HandleRefs(prop, form, table, sofar) ==
    LET value == Split(prop) IN
    IF Len(value) < 2 \/ Len(value) > 2
    THEN [error |-> ValueError(MalformedMsg, <<>>), value |-> StrVal(prop), calls |-> <<>>]
    ELSE LET sym == get_symbol(table, value[2]) IN
         [error |-> sym.error,
          value |-> RefVal(sym.value),
          calls |-> <<Lookup(value[2], form, sym, sofar)>>]

RECURSIVE Ec2CheckListForRefs(_, _, _, _, _)
RECURSIVE Ec2ListItemResolved(_, _, _, _, _, _)

\* ec2.py:132  prop_list[idx] = r, the outcome of _handle_refs(item, callback)
Ec2ListItemResolved(prop_list, idx, table, sofar, acc, r) ==
    IF r.error # NoError
    THEN [error |-> r.error, items |-> prop_list, calls |-> acc \o r.calls]
    ELSE Ec2CheckListForRefs([prop_list EXCEPT ![idx] = r.value], idx + 1,
                             table, sofar, acc \o r.calls)

\* ec2.py:118-134  _check_list_for_refs, from item idx on: [error, items, calls]
Ec2CheckListForRefs(prop_list, idx, table, sofar, acc) ==
    IF idx > Len(prop_list)
    THEN [error |-> NoError, items |-> prop_list, calls |-> acc]
    ELSE IF ~Ec2IsRef(prop_list[idx])
    THEN Ec2CheckListForRefs(prop_list, idx + 1, table, sofar, acc)
    ELSE Ec2ListItemResolved(prop_list, idx, table, sofar, acc,
             Ec2HandleRefs(prop_list[idx].s, "list", table, sofar))

\* ec2.py:150  props[prop_name] = r, the outcome of _check_list_for_refs
Ec2ListResolved(prop_name, props, r) ==
    [error |-> r.error,
     props |-> DictSet(props, prop_name, ListVal(r.items)),
     calls |-> r.calls]

\* ec2.py:156  props[prop_name] = r, the outcome of _handle_refs
Ec2ScalarResolved(prop_name, props, r) ==
    [error |-> r.error,
     props |-> IF r.error = NoError THEN DictSet(props, prop_name, r.value) ELSE props,
     calls |-> r.calls]

\* ec2.py:137-156  resolve_refs: [error, props, calls]
Ec2ResolveRefs(prop_name, props, table, sofar) ==
    IF prop_name \in EC2_EXPECTS_LIST
    THEN Ec2ListResolved(prop_name, props,
             Ec2CheckListForRefs(DictGet(props, prop_name).items, 1, table, sofar, <<>>))
    ELSE IF Ec2IsRef(DictGet(props, prop_name))
    THEN Ec2ScalarResolved(prop_name, props,
             Ec2HandleRefs(DictGet(props, prop_name).s, "scalar", table, sofar))
    ELSE [error |-> NoError, props |-> props, calls |-> <<>>]

\* ec2.py:184-187  props[validated_param] = [value] or value
Ec2StoreProp(validated_param, value, props) ==
    [error |-> NoError,
     name  |-> validated_param,
     props |-> IF validated_param \in EC2_EXPECTS_LIST /\ IsStr(value)
               THEN DictSet(props, validated_param, ListVal(<<value>>))
               ELSE DictSet(props, validated_param, value)]

\* ec2.py:178-189, with cleaned_param the list property_validator returned
Ec2CheckCleaned(key, value, props, cleaned_param) ==
    IF cleaned_param = <<>>
    THEN [error |-> ValueError(InvalidEc2AttrMsg, key), name |-> <<>>, props |-> props]
    ELSE Ec2StoreProp(Join(cleaned_param), value, props)

\* ec2.py:159-189  _validate_props: [error, name, props]
Ec2ValidateProps(key, value, props) ==
    Ec2CheckCleaned(key, value, props, PropertyValidator(key, EC2_LANG))

RECURSIVE Ec2BuildLoop(_, _, _, _, _)
RECURSIVE Ec2Validated(_, _, _, _, _, _)
RECURSIVE Ec2Resolved(_, _, _, _, _, _)

\* ec2.py:223-225, with r the outcome of resolve_refs: the key is tracked
\* and the loop goes on
Ec2Resolved(ec2_properties, i, st, table, sofar, r) ==
    IF r.error # NoError
    THEN [st EXCEPT !.error = r.error, !.calls = st.calls \o r.calls]
    ELSE Ec2BuildLoop(ec2_properties, i + 1,
             [st EXCEPT !.ec2 = r.props,
                        !.calls = st.calls \o r.calls,
                        !.resource_tracker =
                            st.resource_tracker \cup {Lower(ec2_properties[i].k)}],
             table, sofar)

\* ec2.py:221-223, with v the outcome of _validate_props
Ec2Validated(ec2_properties, i, st, table, sofar, v) ==
    IF v.error # NoError THEN [st EXCEPT !.error = v.error]
    ELSE Ec2Resolved(ec2_properties, i, st, table, sofar,
             Ec2ResolveRefs(v.name, v.props, table, sofar))

\* ec2.py:214-225, the loop over ec2_properties.items(), from entry i on
Ec2BuildLoop(ec2_properties, i, st, table, sofar) ==
    IF i > Len(ec2_properties) THEN st
    ELSE IF Lower(ec2_properties[i].k) \in st.resource_tracker
    THEN [st EXCEPT !.error = ValueError(DuplicatePropMsg, ec2_properties[i].k)]
    ELSE Ec2Validated(ec2_properties, i, st, table, sofar,
             Ec2ValidateProps(ec2_properties[i].k, ec2_properties[i].v, st.ec2))

\* ec2.py:227  troposphere.ec2.Instance(name, **ec2), unless the loop
\* raised: [error, artifact, calls, kind]
Ec2Instance(name, st) ==
    [error |-> st.error,
     artifact |-> Artifact("Instance", name, st.ec2),
     calls |-> st.calls,
     kind |-> <<"e", "c", "2">>]

\* ec2.py:192-227  build, up to the callbacks
Ec2Build(name, ec2_properties, table, sofar) ==
    Ec2Instance(name,
        Ec2BuildLoop(ec2_properties, 1,
            [ec2 |-> DefaultEc2Params, resource_tracker |-> {},
             calls |-> <<>>, error |-> NoError],
            table, sofar))

-----------------------------------------------------------------------------
(* policy.py, role.py, securitygroups.py: the builders, for an empty
   property map *)

\* the troposphere class each builder constructs (policy.py:313,
\* role.py:291, securitygroups.py:248)
ClassOf(kind) ==
    CASE kind = <<"p", "o", "l", "i", "c", "y">> -> "PolicyType"
      [] kind = <<"r", "o", "l", "e">> -> "Role"
      [] OTHER -> "SecurityGroup"

\* build(name, callbacks, {}): the loop over the properties has nothing to
\* do and the resource is made of the defaults alone, which are left out of
\* the artifact here; no reference is resolved
DefaultsBuild(kind, name) ==
    [error |-> NoError,
     artifact |-> Artifact(ClassOf(kind), name, <<>>),
     calls |-> <<>>,
     kind |-> kind]

\* __main__.py:181-185  DISPATCH[resource.lower()].build(name, callbacks, properties)
DispatchBuild(kind, name, properties, table, sofar) ==
    IF kind = <<"e", "c", "2">>
    THEN Ec2Build(name, properties, table, sofar)
    ELSE DefaultsBuild(kind, name)

-----------------------------------------------------------------------------
(* __main__.py: parse *)

\* the resource keys of a document: two spellings of one kind, two further
\* supported kinds and a kind DISPATCH does not hold
ParseKeys == << <<"e", "c", "2">>, <<"E", "C", "2">>, <<"s", "e", "c", "u", "r", "i", "t", "y", "g", "r", "o", "u", "p", "s">>, <<"p", "o", "l", "i", "c", "y">>, <<"s", "3">>, <<"V", "p", "c">> >>

\* the most resources one document declares
MaxDeclared == 2

\* the most properties the ec2 resources of a document hold
MaxProps == 2

\* the properties given to the ec2 resources
Ec2Properties ==
    << [k |-> <<"S", "e", "c", "u", "r", "i", "t", "y", "G", "r", "o", "u", "p", "s">>,   v |-> StrVal(<<"r", "e", "f", " ", "s", "e", "c", "u", "r", "i", "t", "y", "g", "r", "o", "u", "p", "s">>)],
       [k |-> <<"s", "e", "c", "u", "r", "i", "t", "y", "g", "r", "o", "u", "p", "s">>,   v |-> ListVal(<<StrVal(<<"r", "e", "f", " ", "s", "e", "c", "u", "r", "i", "t", "y", "g", "r", "o", "u", "p", "s">>)>>)],
       [k |-> <<"I", "m", "a", "g", "e", "I", "d">>,          v |-> StrVal(<<"r", "e", "f", " ", "p", "o", "l", "i", "c", "y">>)],
       [k |-> <<"i", "m", "a", "g", "e", "i", "d">>,          v |-> StrVal(<<"t", "2">>)],
       [k |-> <<"s", "e", "c", "u", "r", "i", "t", "y", "g", "r", "o", "u", "p", "i", "d", "s">>, v |-> ListVal(<<StrVal(<<"r", "e", "f">>)>>)],
       [k |-> <<"b", "o", "g", "u", "s">>,            v |-> StrVal(<<"t", "2">>)],
       [k |-> <<"T", "e", "n", "a", "n", "c", "y">>,          v |-> StrVal(<<"R", "E", "F", " ", "p", "o", "l", "i", "c", "y">>)] >>

Injective(f) == \A i, j \in DOMAIN f : f[i] = f[j] => i = j

\* doc["resources"]: the chosen keys in the chosen order; the resources of
\* kind ec2 hold the chosen properties, the others hold none
DocResources(ks, ps) ==
    [r \in 1..Len(ks) |->
        [k |-> ParseKeys[ks[r]],
         v |-> IF Lower(ParseKeys[ks[r]]) = <<"e", "c", "2">>
               THEN [i \in 1..Len(ps) |-> Ec2Properties[ps[i]]]
               ELSE <<>>]]

\* doc["name"]: missing, or "T"
DocNames == { <<>>, <<"T">> }

\* the arguments of main that pass its own tests (__main__.py:195-197): not
\* both --dry-run and --output-file
MainArgs ==
    { [dry_run |-> FALSE, output_file |-> FALSE],
      [dry_run |-> TRUE,  output_file |-> FALSE],
      [dry_run |-> FALSE, output_file |-> TRUE] }

InitParse ==
    /\ nroot = <<>> /\ nkey = <<>> /\ nvalue = StrVal(<<>>) /\ nfound = StrVal(<<>>)
    /\ nupdated = <<>> /\ npc = "idle"
    /\ eprops = <<>> /\ epc = "idle"
    /\ aclprops = <<>> /\ aclpc = "idle"
    /\ args \in MainArgs /\ emitted = <<>>
    /\ bstack = <<>> /\ bmemo = <<>> /\ bmatches = <<>> /\ bret = "none"
    /\ vkey = <<>> /\ vchoices = <<>> /\ vresult = <<>> /\ vpc = "idle"
    /\ graph = <<>> /\ dpc = "idle"
    /\ order = <<>>
    /\ error = NoError
    /\ docName \in DocNames
    /\ \E n \in 1..MaxDeclared, m \in 0..MaxProps :
       \E ks \in [1..n -> 1..Len(ParseKeys)], ps \in [1..m -> 1..Len(Ec2Properties)] :
          /\ Injective(ks) /\ Injective(ps)
          /\ resources = DocResources(ks, ps)
    /\ SYMBOL_TABLE = <<>>
    /\ TEMPLATE = <<>>
    /\ invoked = <<>>
    /\ calls = <<>>
    /\ added = <<>>
    /\ ppc = "loaded"

\* __main__.py:165-166
CheckName ==
    /\ ppc = "loaded"
    /\ IF docName = <<>>
       THEN error' = ValueError(NoNameMsg, <<>>) /\ ppc' = "raised"
       ELSE error' = error /\ ppc' = "named"
    /\ UNCHANGED <<resources, graph, order, dpc, utilsVars, nestedVars, ec2Vars, naclVars, mainVars, backtrackVars,
                   docName, SYMBOL_TABLE, TEMPLATE, invoked, calls, added>>

\* __main__.py:169  _init_symbol_table(doc["resources"])
InitSymbolTable ==
    /\ ppc = "named"
    /\ LET r == InitSymbolTableLoop(resources, 1, SYMBOL_TABLE) IN
       /\ SYMBOL_TABLE' = r.table
       /\ error' = r.error
       /\ ppc' = IF r.error = NoError THEN "registered" ELSE "raised"
    /\ UNCHANGED <<resources, graph, order, dpc, utilsVars, nestedVars, ec2Vars, naclVars, mainVars, backtrackVars,
                   docName, TEMPLATE, invoked, calls, added>>

\* order = r.order, or the exception of r is raised
Ordered(r) ==
    /\ order' = r.order
    /\ error' = r.error
    /\ ppc' = IF r.error = NoError THEN "building" ELSE "raised"

\* __main__.py:174  order = processing_order(doc["resources"])
ProcessingOrder ==
    /\ ppc = "registered"
    /\ Ordered(processing_order(resources))
    /\ UNCHANGED <<resources, graph, dpc, utilsVars, nestedVars, ec2Vars, naclVars, mainVars, backtrackVars,
                   docName, SYMBOL_TABLE, TEMPLATE, invoked, calls, added>>

\* a slip of __main__.py:176: the loop taken over the keys of the document
NextInDocument(k) == resources[k + 1].k

\* __main__.py:176, the resource the loop takes after k iterations
NextResource(k) == order[k + 1]

\* the end of a builder (ec2.py:230-232): callbacks["add_resource"](artifact),
\* then callbacks["add_symbol"](kind, artifact), unless the builder raised
\* before: [error, calls, template, table, added]
Callbacks(b) ==
    IF b.error # NoError
    THEN [error |-> b.error, calls |-> b.calls,
          template |-> TEMPLATE, table |-> SYMBOL_TABLE, added |-> added]
    ELSE IF add_resource(TEMPLATE, b.artifact).error # NoError
    THEN [error |-> add_resource(TEMPLATE, b.artifact).error, calls |-> b.calls,
          template |-> TEMPLATE, table |-> SYMBOL_TABLE, added |-> added]
    ELSE [error |-> NoError, calls |-> b.calls,
          template |-> add_resource(TEMPLATE, b.artifact).template,
          table |-> add_symbol(SYMBOL_TABLE, b.kind, b.artifact),
          added |-> Append(added, b.kind)]

\* __main__.py:180-185  name = f"{doc['name']}{resource.upper()}" and the
\* call of DISPATCH[resource.lower()].build
Builder(resource) ==
    Callbacks(DispatchBuild(Lower(resource), docName \o Upper(resource),
                            DictGet(resources, resource), SYMBOL_TABLE, added))

\* a slip of __main__.py:181-185: the exception of a builder is caught and
\* the loop goes on
IteratedKeepsGoing(resource, out) ==
    /\ invoked' = Append(invoked, resource)
    /\ calls' = calls \o out.calls
    /\ TEMPLATE' = out.template
    /\ SYMBOL_TABLE' = out.table
    /\ added' = out.added
    /\ error' = out.error
    /\ ppc' = ppc

\* the outcome of one iteration of the loop of parse
Iterated(resource, out) ==
    /\ invoked' = Append(invoked, resource)
    /\ calls' = calls \o out.calls
    /\ TEMPLATE' = out.template
    /\ SYMBOL_TABLE' = out.table
    /\ added' = out.added
    /\ error' = out.error
    /\ ppc' = IF out.error = NoError THEN ppc ELSE "raised"

\* __main__.py:176-185, one iteration of the loop: the whole builder, with
\* its add_resource and add_symbol callbacks
Build ==
    /\ ppc = "building"
    /\ Len(invoked) < Len(order)
    /\ IF Lower(NextResource(Len(invoked))) \notin SeqToSet(DISPATCH)
       THEN /\ error' = ValueError("not supported", NextResource(Len(invoked)))
            /\ ppc' = "raised"
            /\ UNCHANGED <<TEMPLATE, SYMBOL_TABLE, added, invoked, calls>>
       ELSE Iterated(NextResource(Len(invoked)), Builder(NextResource(Len(invoked))))
    /\ UNCHANGED <<resources, graph, order, dpc, utilsVars, nestedVars, ec2Vars, naclVars, mainVars, backtrackVars, docName>>

\* __main__.py:176, the loop is over: parse returns
Return ==
    /\ ppc = "building"
    /\ Len(invoked) = Len(order)
    /\ ppc' = "returned"
    /\ UNCHANGED <<depsVars, utilsVars, nestedVars, ec2Vars, naclVars, mainVars, backtrackVars,
                   docName, SYMBOL_TABLE, TEMPLATE, invoked, calls, added>>

\* __main__.py:219-220  print(TEMPLATE.to_yaml())
PrintTemplate ==
    /\ ppc = "returned"
    /\ args.dry_run
    /\ emitted' = Append(emitted, "print")
    /\ ppc' = "printed"
    /\ UNCHANGED <<depsVars, utilsVars, nestedVars, ec2Vars, naclVars, backtrackVars, args,
                   docName, SYMBOL_TABLE, TEMPLATE, invoked, calls, added>>

\* __main__.py:222-223  write_to_file(args.output_file, TEMPLATE); with
\* --output-file given, --dry-run is not, and nothing was printed before
WriteToFile ==
    /\ ppc = "returned"
    /\ args.output_file
    /\ emitted' = Append(emitted, "write")
    /\ ppc' = "written"
    /\ UNCHANGED <<depsVars, utilsVars, nestedVars, ec2Vars, naclVars, backtrackVars, args,
                   docName, SYMBOL_TABLE, TEMPLATE, invoked, calls, added>>

NextParse ==
    \/ CheckName \/ InitSymbolTable \/ ProcessingOrder \/ Build \/ Return
    \/ PrintTemplate \/ WriteToFile

SpecParse == InitParse /\ [][NextParse]_vars

-----------------------------------------------------------------------------
(* Claims about parse, checked under SpecParse *)

\* the kinds _init_symbol_table pre-registered: the keys of the symbol table
Registered(kind) == DictHas(SYMBOL_TABLE, kind)

\* how often x occurs in the list
Count(list, x) == Cardinality({i \in 1..Len(list) : list[i] = x})

\* C3: whenever a builder calls get_symbol(K), for a reference written as a
\* scalar or as an element of a list, the builder of kind K has already
\* completed and the call returns K's finished artifact, never the
\* placeholder.  (Violated: a reference inside a list adds no edge to the
\* dependency graph, so the referring resource may be built first.)
C3_LookupsReturnFinishedArtifacts ==
    \A i \in 1..Len(calls) :
        Registered(calls[i].arg)
            => /\ calls[i].arg \in SeqToSet(calls[i].added)
               /\ calls[i].error = NoError
               /\ calls[i].value # None

\* C4: parse invokes a builder once for each declared resource, in the
\* sequence topological_sort(dep_graph(resources)) returned: at any moment
\* the builders invoked are a prefix of that sequence, no kind is given to
\* add_symbol twice, and when parse returns every declared resource has had
\* its builder invoked once and every declared kind was given to add_symbol
\* once.
C4_BuildersFollowTheOrder ==
    /\ Len(invoked) <= Len(order)
    /\ invoked = SubSeq(order, 1, Len(invoked))
    /\ ppc \in {"building", "returned"} => order = processing_order(resources).order
    /\ \A i \in 1..Len(added) : Count(added, added[i]) = 1
    /\ ppc = "returned"
         => /\ \A r \in 1..Len(resources) : Count(invoked, resources[r].k) = 1
            /\ Len(invoked) = Len(resources)
            /\ \A r \in 1..Len(resources) : Count(added, Lower(resources[r].k)) = 1

\* C4 happens: parse has returned after building two resources in an order
\* that is not the order of the document.
C4_Witness ==
    /\ ppc = "returned"
    /\ Len(invoked) = 2
    /\ invoked # DictKeys(resources)
    /\ Len(added) = 2

\* C9: get_symbol on a kind that is pre-registered but whose builder has not
\* yet run raises instead of returning a value to the caller.  (Violated:
\* the call returns the placeholder None.)
C9_UnbuiltLookupRaises ==
    \A i \in 1..Len(calls) :
        (Registered(calls[i].arg) /\ calls[i].arg \notin SeqToSet(calls[i].added))
            => calls[i].error # NoError

-----------------------------------------------------------------------------
(* Claims about property_validator, checked under SpecUtils *)

\* the words property_validator searches (utils.py:58)
LangOf(choices) == choices \o RESOURCE_ATTR

\* s is the concatenation of lower-cased words of lang
RECURSIVE Decomposable(_, _)
Decomposable(s, lang) ==
    \/ s = <<>>
    \/ \E j \in 1..Len(lang) :
          /\ StartsWith(s, Lower(lang[j]))
          /\ Decomposable(SubSeq(s, Len(lang[j]) + 1, Len(s)), lang)

\* the words of lang that s starts with and whose remainder is decomposable
Solvers(s, lang) ==
    {j \in 1..Len(lang) :
        /\ StartsWith(s, Lower(lang[j]))
        /\ Decomposable(SubSeq(s, Len(lang[j]) + 1, Len(s)), lang)}

\* the decomposition that takes, at each position from the left, the first
\* word in the order of lang whose remainder is decomposable
RECURSIVE FirstDecomposition(_, _)
FirstDecomposition(s, lang) ==
    IF s = <<>> \/ Solvers(s, lang) = {} THEN <<>>
    ELSE LET j == CHOOSE j \in Solvers(s, lang) : \A k \in Solvers(s, lang) : j <= k
         IN  <<lang[j]>> \o FirstDecomposition(SubSeq(s, Len(lang[j]) + 1, Len(s)), lang)

\* C11: for every key that has no decomposition into words of the
\* vocabulary, property_validator returns the empty list (it returns: the
\* call never ends in an exception).
C11_NoDecompositionGivesEmpty ==
    (vpc = "validated" /\ ~Decomposable(Lower(vkey), LangOf(vchoices)))
        => vresult = <<>>

\* C11 happens: a key holding a dash, between two words of the vocabulary,
\* was validated to the empty list.
C11_Witness ==
    /\ vpc = "validated"
    /\ vkey = <<"s", "o", "-", "n">>
    /\ <<"S", "o">> \in SeqToSet(vchoices)
    /\ vresult = <<>>

\* C12: property_validator returns the decomposition that takes, at each
\* position from left to right, the first word in vocabulary order (the
\* choices in declared order, then the global attribute words) whose
\* remainder is fully decomposable, and no other one.
C12_FirstSolvableWordWins ==
    vpc = "validated"
        => vresult = FirstDecomposition(Lower(vkey), LangOf(vchoices))

\* C12 happens: with So declared before Son, the key "SON" is not spelt
\* with So (its remainder "n" has no decomposition) but with Son.
C12_Witness ==
    /\ vpc = "validated"
    /\ vkey = <<"S", "O", "N">>
    /\ vchoices = << <<"S", "o">>, <<"S", "o", "n">> >>
    /\ vresult = << <<"S", "o", "n">> >>

\* C13: property_validator is case-insensitive in its key: the key, the
\* lower-cased key and the upper-cased key give the same list, so any two
\* keys that are equal when lower-cased do.
C13_KeyCaseInsensitive ==
    vpc = "validated"
        => /\ vresult = PropertyValidator(Lower(vkey), vchoices)
           /\ vresult = PropertyValidator(Upper(vkey), vchoices)

\* C13 happens: a key in mixed case was spelt from the vocabulary.
C13_Witness ==
    /\ vpc = "validated"
    /\ vkey = <<"n", "O", "s", "O">>
    /\ vresult = << <<"N", "o", "s">>, <<"O">> >>

-----------------------------------------------------------------------------
(* lib/utils.py: nested_find and nested_update *)

\* a dict value: its entries [k, v] in insertion order
DictVal(d) == [t |-> "dict", s |-> <<>>, items |-> d]

\* the value None
PyNone == [t |-> "none", s |-> <<>>, items |-> <<>>]

\* the truth value of a Python value, as in `if result:` (utils.py:123)
Truthy(v) ==
    CASE v.t = "str" -> v.s # <<>>
      [] v.t = "none" -> FALSE
      [] OTHER -> v.items # <<>>

\* a slip of utils.py:123: `if result is not None`
IfNotNone(result, otherwise) == IF result # PyNone THEN result ELSE otherwise

\* utils.py:123-124  `if result: return result`, otherwise the search goes on
IfResult(result, otherwise) == IF Truthy(result) THEN result ELSE otherwise

RECURSIVE nested_find(_, _)
RECURSIVE FindInValues(_, _, _)
RECURSIVE FindInList(_, _, _)

\* utils.py:117-124, the loop over the items of a list, from item j on:
\* the first result that is true, None when there is none
FindInList(items, j, search_key) ==
    IF j > Len(items) THEN PyNone
    ELSE IF items[j].t = "dict"
    THEN IfResult(nested_find(items[j].items, search_key),
                  FindInList(items, j + 1, search_key))
    ELSE FindInList(items, j + 1, search_key)

\* utils.py:111-126, the loop over mapping.values(), from value i on
FindInValues(mapping, i, search_key) ==
    IF i > Len(mapping) THEN PyNone
    ELSE IF mapping[i].v.t = "dict"
    THEN nested_find(mapping[i].v.items, search_key)
    ELSE IF mapping[i].v.t = "list" /\ Len(mapping[i].v.items) > 0
    THEN IfResult(FindInList(mapping[i].v.items, 1, search_key),
                  FindInValues(mapping, i + 1, search_key))
    ELSE FindInValues(mapping, i + 1, search_key)

\* utils.py:100-126
nested_find(mapping, search_key) ==
    IF DictHas(mapping, search_key)
    THEN DictGet(mapping, search_key)
    ELSE FindInValues(mapping, 1, search_key)

\* a slip of utils.py:144-146: the key is set whether the mapping holds it or not
NestedUpdateAlwaysSets(mapping, update_key, update_value) ==
    DictSet(mapping, update_key, update_value)

RECURSIVE nested_update(_, _, _)

\* utils.py:155-156, one item of a list
UpdateItem(item, update_key, update_value) ==
    IF item.t = "dict"
    THEN DictVal(nested_update(item.items, update_key, update_value))
    ELSE item

\* utils.py:148-156, one value of the mapping
UpdateValue(value, update_key, update_value) ==
    IF value.t = "dict"
    THEN DictVal(nested_update(value.items, update_key, update_value))
    ELSE IF value.t = "list" /\ Len(value.items) > 0
    THEN ListVal([j \in 1..Len(value.items) |->
                     UpdateItem(value.items[j], update_key, update_value)])
    ELSE value

\* utils.py:129-157: the mapping after the call, which is also what the
\* call returns
nested_update(mapping, update_key, update_value) ==
    IF DictHas(mapping, update_key)
    THEN DictSet(mapping, update_key, update_value)
    ELSE [i \in 1..Len(mapping) |->
             [k |-> mapping[i].k,
              v |-> UpdateValue(mapping[i].v, update_key, update_value)]]

-----------------------------------------------------------------------------
(* The calls of nested_find and nested_update *)

\* keys of the fixture of tests/test_utils.py:20-51
SID == <<"S", "i", "d">>
EFFECT == <<"E", "f", "f", "e", "c", "t">>
ROLES == <<"R", "o", "l", "e", "s">>

NestedKeys == <<SID, EFFECT, ROLES>>

\* the most members the mapping given to the calls holds
MaxMembers == 2

\* a mapping of one entry
One(k, v) == <<[k |-> k, v |-> v]>>

\* the values of the members: scalars, mappings and lists, empty and not,
\* with the keys at several depths, once and more than once
NestedValues ==
    << StrVal(<<"1">>),
       StrVal(<<>>),
       DictVal(One(SID, StrVal(<<"1">>))),
       DictVal(One(SID, StrVal(<<>>))),
       DictVal(One(EFFECT, StrVal(<<"1">>))),
       DictVal(One(EFFECT, DictVal(One(SID, StrVal(<<"1">>))))),
       DictVal(<<>>),
       ListVal(<<>>),
       ListVal(<<StrVal(<<"1">>)>>),
       ListVal(<<DictVal(One(SID, StrVal(<<"1">>)))>>),
       ListVal(<<DictVal(One(EFFECT, StrVal(<<"1">>))), DictVal(One(SID, StrVal(<<"2">>)))>>),
       ListVal(<<DictVal(One(SID, StrVal(<<>>))), DictVal(One(SID, StrVal(<<"2">>)))>>),
       ListVal(<<DictVal(One(SID, StrVal(<<"1">>))), DictVal(One(SID, StrVal(<<"2">>)))>>),
       ListVal(<<DictVal(One(EFFECT,
                     ListVal(<<DictVal(One(SID, StrVal(<<"1">>)))>>)))>>) >>

\* the update values: a non-empty and an empty string
UpdateValues == {StrVal(<<"9">>), StrVal(<<>>)}

\* the mapping whose members are keyed and valued as chosen
MappingOf(ks, vs) ==
    [i \in 1..Len(ks) |-> [k |-> NestedKeys[ks[i]], v |-> NestedValues[vs[i]]]]

InitNested ==
    /\ docName = <<>> /\ SYMBOL_TABLE = <<>> /\ TEMPLATE = <<>> /\ invoked = <<>>
    /\ calls = <<>> /\ added = <<>> /\ ppc = "idle"
    /\ resources = <<>> /\ graph = <<>> /\ order = <<>> /\ error = NoError /\ dpc = "idle"
    /\ vkey = <<>> /\ vchoices = <<>> /\ vresult = <<>> /\ vpc = "idle"
    /\ \E n \in 0..MaxMembers :
       \E ks \in [1..n -> 1..Len(NestedKeys)], vs \in [1..n -> 1..Len(NestedValues)] :
          /\ Injective(ks)
          /\ nroot = MappingOf(ks, vs)
    /\ nkey \in {SID, EFFECT}
    /\ nvalue \in UpdateValues
    /\ nfound = PyNone
    /\ nupdated = <<>>
    /\ npc = "args"
    /\ eprops = <<>> /\ epc = "idle"
    /\ aclprops = <<>> /\ aclpc = "idle"
    /\ args = NoArgs /\ emitted = <<>>
    /\ bstack = <<>> /\ bmemo = <<>> /\ bmatches = <<>> /\ bret = "none"

\* nfound = nested_find(nroot, nkey)
CallNestedFind ==
    /\ npc = "args"
    /\ nfound' = nested_find(nroot, nkey)
    /\ npc' = "found"
    /\ UNCHANGED <<nroot, nkey, nvalue, nupdated, depsVars, utilsVars, parseVars, ec2Vars, naclVars, mainVars, backtrackVars>>

\* nupdated = nested_update(nroot, nkey, nvalue); the call changes the
\* mapping in place, nroot keeps it as it was before the call
CallNestedUpdate ==
    /\ npc = "args"
    /\ nupdated' = nested_update(nroot, nkey, nvalue)
    /\ npc' = "updated"
    /\ UNCHANGED <<nroot, nkey, nvalue, nfound, depsVars, utilsVars, parseVars, ec2Vars, naclVars, mainVars, backtrackVars>>

\* nfound = nested_find(nupdated, nkey)  (test_utils.py:134-135)
CallNestedFindUpdated ==
    /\ npc = "updated"
    /\ nfound' = nested_find(nupdated, nkey)
    /\ npc' = "refound"
    /\ UNCHANGED <<nroot, nkey, nvalue, nupdated, depsVars, utilsVars, parseVars, ec2Vars, naclVars, mainVars, backtrackVars>>

NextNested == CallNestedFind \/ CallNestedUpdate \/ CallNestedFindUpdated

SpecNested == InitNested /\ [][NextNested]_vars

-----------------------------------------------------------------------------
(* Claims about nested_find and nested_update, checked under SpecNested *)

\* the values held under key in the mappings of value v, at every depth:
\* in v itself, in the mappings that are its members, and in the mappings
\* inside the lists that are its members
RECURSIVE ValuesUnder(_, _)
ValuesUnder(v, key) ==
    IF v.t = "dict"
    THEN {v.items[i].v : i \in {i \in 1..Len(v.items) : v.items[i].k = key}}
         \cup UNION {ValuesUnder(v.items[i].v, key) : i \in 1..Len(v.items)}
    ELSE IF v.t = "list"
    THEN UNION {ValuesUnder(v.items[j], key) : j \in 1..Len(v.items)}
    ELSE {}

RECURSIVE SumTo(_, _)
SumTo(f, n) == IF n = 0 THEN 0 ELSE f[n] + SumTo(f, n - 1)

\* how many mappings of value v, at every depth, hold key
RECURSIVE CountKey(_, _)
CountKey(v, key) ==
    IF v.t = "dict"
    THEN SumTo([i \in 1..Len(v.items) |->
                   (IF v.items[i].k = key THEN 1 ELSE 0) + CountKey(v.items[i].v, key)],
               Len(v.items))
    ELSE IF v.t = "list"
    THEN SumTo([j \in 1..Len(v.items) |-> CountKey(v.items[j], key)], Len(v.items))
    ELSE 0

\* C14: when search_key is no direct member of the mapping, nested_find
\* searches every mapping-valued member and every mapping inside every
\* list-valued member, and returns the key's value if it is found in any of
\* them (stated for keys whose values are all non-empty).  (Violated: the
\* search returns whatever the first mapping-valued member gives, also when
\* that is None.)
C14_FindSearchesEveryMember ==
    ( /\ npc = "found"
      /\ ~DictHas(nroot, nkey)
      /\ ValuesUnder(DictVal(nroot), nkey) # {}
      /\ \A v \in ValuesUnder(DictVal(nroot), nkey) : Truthy(v) )
        => nfound \in ValuesUnder(DictVal(nroot), nkey)

\* C15: for a structure that holds key K exactly once, at any depth and at
\* any position, nested_find(nested_update(root, K, X), K) = X.  (Violated:
\* the find does not reach a key behind an earlier mapping-valued member,
\* nor an empty X inside a list.)
C15_FindAfterUpdate ==
    (npc = "refound" /\ CountKey(DictVal(nroot), nkey) = 1) => nfound = nvalue

\* C16: nested_update replaces the value under update_key in every mapping
\* where the key occurs, at every depth.  (Violated: a mapping that holds
\* the key as a direct member is not searched further.)
C16_UpdateEveryOccurrence ==
    (npc = "updated" /\ CountKey(DictVal(nroot), nkey) > 0)
        => ValuesUnder(DictVal(nupdated), nkey) = {nvalue}

\* C17: nested_update with a key that occurs nowhere in the structure
\* returns a structure equal to the one before the call.
C17_AbsentKeyChangesNothing ==
    (npc = "updated" /\ CountKey(DictVal(nroot), nkey) = 0) => nupdated = nroot

\* C17 happens: a mapping with a list of mappings and a mapping, none
\* holding Effect, was updated under Effect.
C17_Witness ==
    /\ npc = "updated"
    /\ nkey = EFFECT
    /\ nroot = MappingOf(<<1, 3>>, <<13, 4>>)
    /\ CountKey(DictVal(nroot), nkey) = 0

\* no member of the mapping is itself a mapping
NoDictMember(mapping) == \A i \in 1..Len(mapping) : mapping[i].v.t # "dict"

\* the positions <<member, item>> of the mappings inside list-valued
\* members whose own search gives a non-empty result
ListHits(mapping, key) ==
    UNION {{<<i, j>> : j \in {j \in 1..Len(mapping[i].v.items) :
                                /\ mapping[i].v.items[j].t = "dict"
                                /\ Truthy(nested_find(mapping[i].v.items[j].items, key))}}
           : i \in {i \in 1..Len(mapping) : mapping[i].v.t = "list"}}

\* the first position, members in order and items in list order
FirstHit(hits) ==
    CHOOSE h \in hits :
        \A g \in hits : h[1] < g[1] \/ (h[1] = g[1] /\ h[2] <= g[2])

\* C18: a direct hit at a mapping level is returned at once whatever its
\* value; when nested_find searches the mappings inside list-valued members
\* it takes the items in list order and returns the first non-empty result
\* found among them, None if there is none.
C18_ListOrderFirstNonEmpty ==
    npc = "found"
        => /\ DictHas(nroot, nkey) => nfound = DictGet(nroot, nkey)
           /\ (~DictHas(nroot, nkey) /\ NoDictMember(nroot))
                => nfound =
                     IF ListHits(nroot, nkey) = {} THEN PyNone
                     ELSE LET h == FirstHit(ListHits(nroot, nkey))
                          IN  nested_find(nroot[h[1]].v.items[h[2]].items, nkey)

\* C18 happens: the first mapping of the list holds Sid with an empty
\* value, the second with a non-empty one, and the second was returned.
C18_Witness ==
    /\ npc = "found"
    /\ nkey = SID
    /\ nroot = MappingOf(<<3>>, <<12>>)
    /\ nfound = StrVal(<<"2">>)

-----------------------------------------------------------------------------
(* A direct call of ec2.build, as in tests/test_ec2.py *)

\* the name given to build (test_ec2.py:198)
Ec2TestName == <<"t", "e", "s", "t", "E", "C", "2">>

\* the most properties of the property map given to build
MaxEc2Props == 2

SECURITYGROUPS == <<"s", "e", "c", "u", "r", "i", "t", "y", "g", "r", "o", "u", "p", "s">>
POLICY == <<"p", "o", "l", "i", "c", "y">>

\* the symbol tables behind the get_symbol callback: empty, or holding the
\* artifacts of resources built before
SymbolTables ==
    { <<>>,
      <<[k |-> SECURITYGROUPS, v |-> Artifact("SecurityGroup", <<"t", "e", "s", "t", "S", "E", "C", "U", "R", "I", "T", "Y", "G", "R", "O", "U", "P", "S">>, <<>>)]>>,
      <<[k |-> SECURITYGROUPS, v |-> Artifact("SecurityGroup", <<"t", "e", "s", "t", "S", "E", "C", "U", "R", "I", "T", "Y", "G", "R", "O", "U", "P", "S">>, <<>>)],
        [k |-> POLICY, v |-> Artifact("PolicyType", <<"t", "e", "s", "t", "P", "O", "L", "I", "C", "Y">>, <<>>)]>> }

\* the properties given to build: references in scalar and in list form,
\* well-formed and malformed, with the marker in several spellings
Ec2TestProperties ==
    << [k |-> <<"S", "e", "c", "u", "r", "i", "t", "y", "G", "r", "o", "u", "p", "s">>,   v |-> StrVal(<<"r", "e", "f", " ", "s", "e", "c", "u", "r", "i", "t", "y", "g", "r", "o", "u", "p", "s">>)],
       [k |-> <<"S", "e", "c", "u", "r", "i", "t", "y", "G", "r", "o", "u", "p", "I", "d", "s">>, v |-> ListVal(<<StrVal(<<"s", "g", "-", "1">>),
                                                  StrVal(<<"r", "e", "f", " ", "s", "e", "c", "u", "r", "i", "t", "y", "g", "r", "o", "u", "p", "s">>),
                                                  StrVal(<<"s", "g", "-", "2">>)>>)],
       [k |-> <<"s", "e", "c", "u", "r", "i", "t", "y", "g", "r", "o", "u", "p", "s">>,   v |-> ListVal(<<StrVal(<<"R", "E", "F", " ", "s", "e", "c", "u", "r", "i", "t", "y", "g", "r", "o", "u", "p", "s">>)>>)],
       [k |-> <<"s", "e", "c", "u", "r", "i", "t", "y", "g", "r", "o", "u", "p", "i", "d", "s">>, v |-> ListVal(<<StrVal(<<"r", "e", "f", "s", " ", "s", "e", "c", "u", "r", "i", "t", "y", "g", "r", "o", "u", "p", "s">>)>>)],
       [k |-> <<"S", "E", "C", "U", "R", "I", "T", "Y", "G", "R", "O", "U", "P", "I", "D", "S">>, v |-> ListVal(<<StrVal(<<"r", "e", "f">>)>>)],
       [k |-> <<"S", "E", "C", "U", "R", "I", "T", "Y", "G", "R", "O", "U", "P", "S">>,   v |-> ListVal(<<StrVal(<<"r", "e", "f", " ", "s", "e", "c", "u", "r", "i", "t", "y", "g", "r", "o", "u", "p", "s", " ", "p", "o", "l", "i", "c", "y">>)>>)],
       [k |-> <<"I", "m", "a", "g", "e", "I", "d">>,          v |-> StrVal(<<"r", "e", "f">>)],
       [k |-> <<"K", "e", "y", "N", "a", "m", "e">>,          v |-> StrVal(<<"r", "e", "f", " ", "s", "e", "c", "u", "r", "i", "t", "y", "g", "r", "o", "u", "p", "s", " ", "p", "o", "l", "i", "c", "y">>)],
       [k |-> <<"I", "n", "s", "t", "a", "n", "c", "e", "T", "y", "p", "e">>,     v |-> StrVal(<<"r", "e", "f", " ", "p", "o", "l", "i", "c", "y">>)],
       [k |-> <<"s", "e", "c", "u", "r", "i", "t", "y", "G", "r", "o", "u", "p", "s">>,   v |-> ListVal(<<StrVal(<<"r", "e", "f", " ", "p", "o", "l", "i", "c", "y">>)>>)],
       [k |-> <<"T", "e", "n", "a", "n", "c", "y">>,          v |-> StrVal(<<" ", "r", "e", "f", " ", "s", "e", "c", "u", "r", "i", "t", "y", "g", "r", "o", "u", "p", "s", " ">>)],
       [k |-> <<"K", "e", "r", "n", "e", "l", "I", "d">>,         v |-> StrVal(<<"R", "E", "F">>)],
       [k |-> <<"s", "e", "c", "u", "r", "i", "t", "y", "G", "r", "o", "u", "p", "I", "d", "s">>, v |-> ListVal(<<StrVal(<<"R", "e", "f">>)>>)],
       [k |-> <<"S", "u", "b", "n", "e", "t", "I", "d">>, v |-> StrVal(<<"R", "E", "F", " ", "s", "e", "c", "u", "r", "i", "t", "y", "g", "r", "o", "u", "p", "s">>)],
       [k |-> <<"H", "o", "s", "t", "I", "d">>, v |-> StrVal(<<"R", "e", "f", " ", "s", "e", "c", "u", "r", "i", "t", "y", "g", "r", "o", "u", "p", "s">>)],
       [k |-> <<"A", "f", "f", "i", "n", "i", "t", "y">>, v |-> StrVal(<<"r", "e", "f", "s", " ", "s", "e", "c", "u", "r", "i", "t", "y", "g", "r", "o", "u", "p", "s">>)],
       [k |-> <<"A", "v", "a", "i", "l", "a", "b", "i", "l", "i", "t", "y", "Z", "o", "n", "e">>, v |-> StrVal(<<"e", "u", "-", "w", "e", "s", "t", "-", "1", "a">>)] >>

InitEc2 ==
    /\ docName = <<>> /\ invoked = <<>> /\ ppc = "idle"
    /\ resources = <<>> /\ graph = <<>> /\ order = <<>> /\ dpc = "idle"
    /\ vkey = <<>> /\ vchoices = <<>> /\ vresult = <<>> /\ vpc = "idle"
    /\ nroot = <<>> /\ nkey = <<>> /\ nvalue = StrVal(<<>>) /\ nfound = StrVal(<<>>)
    /\ nupdated = <<>> /\ npc = "idle"
    /\ \E m \in 0..MaxEc2Props :
       \E ps \in [1..m -> 1..Len(Ec2TestProperties)] :
          /\ Injective(ps)
          /\ eprops = [i \in 1..m |-> Ec2TestProperties[ps[i]]]
    /\ SYMBOL_TABLE \in SymbolTables
    /\ TEMPLATE = <<>>
    /\ calls = <<>>
    /\ added = <<>>
    /\ error = NoError
    /\ aclprops = <<>> /\ aclpc = "idle"
    /\ args = NoArgs /\ emitted = <<>>
    /\ bstack = <<>> /\ bmemo = <<>> /\ bmatches = <<>> /\ bret = "none"
    /\ epc = "args"

\* the outcome of the call: what the callbacks did, and the exception
Ec2Called(out) ==
    /\ calls' = out.calls
    /\ TEMPLATE' = out.template
    /\ SYMBOL_TABLE' = out.table
    /\ added' = out.added
    /\ error' = out.error
    /\ epc' = IF out.error = NoError THEN "built" ELSE "raised"

\* cfnlite.ec2.build("testEC2", callbacks, eprops)
CallEc2Build ==
    /\ epc = "args"
    /\ Ec2Called(Callbacks(Ec2Build(Ec2TestName, eprops, SYMBOL_TABLE, added)))
    /\ UNCHANGED <<resources, graph, order, dpc, utilsVars, nestedVars,
                   naclVars, mainVars, backtrackVars, docName, invoked, ppc, eprops>>

NextEc2 == CallEc2Build

SpecEc2 == InitEc2 /\ [][NextEc2]_vars

-----------------------------------------------------------------------------
(* Claims about reference resolution, checked under SpecEc2 *)

\* a reference (spec.md 4.3): a string whose first token is the marker, in
\* any casing
MarkedReference(value) ==
    /\ IsStr(value)
    /\ Split(value.s) # <<>>
    /\ Lower(Split(value.s)[1]) = REF

\* ... followed by exactly one more token, or not
WellFormedReference(value) == MarkedReference(value) /\ Len(Split(value.s)) = 2
MalformedReference(value) == MarkedReference(value) /\ Len(Split(value.s)) # 2

\* the canonical name of a raw key
CanonicalEc2Name(key) == Join(PropertyValidator(key, EC2_LANG))

\* the properties of the instance the call added to the template
BuiltProps == TEMPLATE[Len(TEMPLATE)].props

\* C19: for a list-valued property, resolution replaces every element that
\* is a well-formed reference by a link to what the symbol lookup returned
\* and leaves every other element unchanged; length and order are kept.
\* (Violated: an element is taken for a reference when it begins with the
\* lower-case letters of the marker, whatever its first token is.)
C19_ListResolvedElementwise ==
    epc = "built"
        => \A i \in 1..Len(eprops) :
              (eprops[i].v.t = "list" /\ CanonicalEc2Name(eprops[i].k) \in EC2_EXPECTS_LIST)
                => LET raw == eprops[i].v.items
                       out == DictGet(BuiltProps, CanonicalEc2Name(eprops[i].k)).items
                   IN  /\ Len(out) = Len(raw)
                       /\ \A j \in 1..Len(raw) :
                             IF WellFormedReference(raw[j])
                             THEN /\ DictHas(SYMBOL_TABLE, RefTarget(raw[j]))
                                  /\ out[j] = RefVal(DictGet(SYMBOL_TABLE, RefTarget(raw[j])))
                             ELSE out[j] = raw[j]

\* the strings of a property value: the scalar itself, or the elements
Elements(value) == IF IsStr(value) THEN <<value>> ELSE value.items

\* C20: at resolution time a malformed reference fails with a ValueError
\* and a well-formed reference to a kind never registered fails with a
\* KeyError, in scalar form and in list form alike (stated for a property
\* map of one property holding one string).  (Violated: a malformed
\* reference whose marker is not in lower case does not fail at all.)
C20_MalformedAndUnknownDiffer ==
    (epc \in {"built", "raised"} /\ Len(eprops) = 1 /\ Len(Elements(eprops[1].v)) = 1)
        => LET e == Elements(eprops[1].v)[1] IN
           /\ MalformedReference(e) => error.type = "ValueError"
           /\ (WellFormedReference(e) /\ ~DictHas(SYMBOL_TABLE, RefTarget(e)))
                => error.type = "KeyError"

\* C21: the resolver recognises the marker in any casing and as a whole
\* token: a scalar whose first token is the marker, followed by one more
\* token, is replaced by a link to what the symbol lookup returned, and a
\* scalar whose first token is not the marker is passed through unchanged.
\* (Violated: the test is for the lower-case letters of the marker at the
\* start of the value.)
C21_MarkerAnyCaseWholeToken ==
    epc = "built"
        => \A i \in 1..Len(eprops) :
              (IsStr(eprops[i].v) /\ CanonicalEc2Name(eprops[i].k) \notin EC2_EXPECTS_LIST)
                => LET raw == eprops[i].v
                       out == DictGet(BuiltProps, CanonicalEc2Name(eprops[i].k))
                   IN  /\ WellFormedReference(raw)
                            => /\ DictHas(SYMBOL_TABLE, RefTarget(raw))
                               /\ out = RefVal(DictGet(SYMBOL_TABLE, RefTarget(raw)))
                       /\ ~MarkedReference(raw) => out = raw

-----------------------------------------------------------------------------
(* Claims about the errors of a compilation run, checked under SpecParse *)

\* the declared keys that name no supported kind
Unsupported == {i \in 1..Len(resources) : Lower(resources[i].k) \notin SeqToSet(DISPATCH)}

\* the first of them in the order of the document
FirstUnsupported == resources[CHOOSE i \in Unsupported : \A j \in Unsupported : i <= j].k

\* _init_symbol_table has run
SymbolTableInitialised == ppc \notin {"loaded", "named"}

\* nothing after _init_symbol_table has run: no order was computed, no
\* builder was invoked, no callback was called
NothingBuilt ==
    /\ order = <<>> /\ invoked = <<>> /\ calls = <<>>
    /\ added = <<>> /\ TEMPLATE = <<>>

\* C22 as stated: whenever a declared key, lower-cased, is not in the
\* dispatch set, parse ends in a ValueError naming an offending key, with no
\* order computed and no builder invoked.  (Violated: a document without a
\* name fails on the name first.)
C22_UnsupportedAlwaysNamed ==
    (Unsupported # {} /\ ppc \in {"raised", "returned"})
        => /\ error.type = "ValueError" /\ error.msg = UnsupportedMsg
           /\ error.arg \in {resources[i].k : i \in Unsupported}
           /\ NothingBuilt

\* C22: in a document with a name, whenever a declared key, lower-cased, is
\* not in the dispatch set, parse raises a ValueError naming the first such
\* key as it is written, before the order is computed and before any
\* builder is invoked.
C22_UnsupportedRaisesFirst ==
    (docName # <<>> /\ Unsupported # {} /\ SymbolTableInitialised)
        => /\ ppc = "raised"
           /\ error = ValueError(UnsupportedMsg, FirstUnsupported)
           /\ NothingBuilt

\* a named document declares ec2 and then s3: ec2 was registered, the run
\* ended on s3
C22_Witness ==
    /\ ppc = "raised"
    /\ docName # <<>>
    /\ DictKeys(resources) = << <<"e", "c", "2">>, <<"s", "3">> >>
    /\ error = ValueError(UnsupportedMsg, <<"s", "3">>)
    /\ DictHas(SYMBOL_TABLE, <<"e", "c", "2">>)

-----------------------------------------------------------------------------
(* networkacl.py: build, with lib/validators.py and lib/tags.py *)

TypeError(m) == [type |-> "TypeError", msg |-> m, arg |-> <<>>]
AttributeError(m) == [type |-> "AttributeError", msg |-> m, arg |-> <<>>]

IntVal(n) == [t |-> "int", s |-> <<>>, items |-> <<n>>]
BoolVal(b) == [t |-> "bool", s |-> <<>>, items |-> <<b>>]

InvalidNaclAttrMsg == "is an invalid attribute for NetworkAcl's."
MissingCallbackMsg == "resolve_refs() missing 1 required positional argument: 'callback'"
NoItemsMsg == "object has no attribute 'items'"
NotAlnumMsg == "not alphanumeric"

\* networkacl.py:62
NACL_EXPECTS_LIST == { <<"T">>, <<"a">>, <<"g">>, <<"s">> }

\* networkacl.py:65-69
NACL_LANG ==
    << <<"A", "c", "t", "i", "o", "n">>, <<"A", "c", "l">>, <<"B", "l", "o", "c", "k">>, <<"C", "i", "d", "r">>, <<"E", "g", "r", "e", "s", "s">>, <<"I", "c", "m", "p">>, <<"I", "d">>, <<"I", "n", "g", "r", "e", "s", "s">>,
       <<"I", "p", "v", "6">>, <<"N", "e", "t", "w", "o", "r", "k">>, <<"N", "u", "m", "b", "e", "r">>, <<"P", "o", "r", "t">>, <<"P", "r", "o", "t", "o", "c", "o", "l">>, <<"R", "a", "n", "g", "e">>, <<"R", "u", "l", "e">>, <<"T", "a", "g", "s">>,
       <<"V", "p", "c">> >>

\* networkacl.py:89-96
NAT_ACL_DEFAULTS ==
    { <<"n", "e", "t", "w", "o", "r", "k", "a", "c", "l", "i", "d">>, <<"p", "o", "r", "t", "r", "a", "n", "g", "e">>, <<"p", "r", "o", "t", "o", "c", "o", "l">>, <<"r", "u", "l", "e", "a", "c", "t", "i", "o", "n">>, <<"r", "u", "l", "e", "n", "u", "m", "b", "e", "r">>, <<"v", "p", "c", "i", "d">> }

\* networkacl.py:99-111  _default_nat_acl, with utils.py:14-23
DefaultNatAcl ==
    << [k |-> <<"T", "a", "g", "s">>, v |-> ListVal(<<>>)],
       [k |-> <<"V", "p", "c", "I", "d">>, v |-> StrVal(<<"i", "d", "-", "e", "x", "a", "m", "p", "l", "e", "-", "v", "p", "c">>)],
       [k |-> <<"C", "r", "e", "a", "t", "i", "o", "n", "P", "o", "l", "i", "c", "y">>, v |-> DictVal(<<>>)],
       [k |-> <<"D", "e", "l", "e", "t", "i", "o", "n", "P", "o", "l", "i", "c", "y">>, v |-> StrVal(<<"D", "e", "l", "e", "t", "e">>)],
       [k |-> <<"D", "e", "p", "e", "n", "d", "s", "O", "n">>, v |-> ListVal(<<>>)],
       [k |-> <<"M", "e", "t", "a", "D", "a", "t", "a">>, v |-> DictVal(<<>>)],
       [k |-> <<"U", "p", "d", "a", "t", "e", "P", "o", "l", "i", "c", "y">>, v |-> DictVal(<<>>)],
       [k |-> <<"U", "p", "d", "a", "t", "e", "R", "e", "p", "l", "a", "c", "e", "P", "o", "l", "i", "c", "y">>, v |-> StrVal(<<"D", "e", "l", "e", "t", "e">>)] >>

\* the title check of a troposphere object: letters and digits only
IsAlnum(title) ==
    /\ title # <<>>
    /\ \A i \in 1..Len(title) :
          LowerChar(title[i]) \in
              {"a", "b", "c", "d", "e", "f", "g", "h", "i", "j", "k", "l", "m",
               "n", "o", "p", "q", "r", "s", "t", "u", "v", "w", "x", "y", "z",
               "0", "1", "2", "3", "4", "5", "6", "7", "8", "9"}

\* validators.py:14-35  _handle_refs: [error, value]
HandleRefsSplit(value, table) ==
    IF Len(value) < 2 \/ Len(value) > 2
    THEN [error |-> ValueError(MalformedMsg, <<>>), value |-> PyNone]
    ELSE [error |-> get_symbol(table, value[2]).error,
          value |-> RefVal(get_symbol(table, value[2]).value)]

HandleRefs(prop, table) == HandleRefsSplit(Split(prop), table)

\* validators.py:112-120, with cleaned_param the list property_validator
\* returned: [error, name, props]
ValidateCleaned(value, props, expects_list, cleaned_param) ==
    IF cleaned_param = <<>>
    THEN [error |-> ValueError("", <<>>), name |-> <<>>, props |-> props]
    ELSE [error |-> NoError,
          name  |-> Join(cleaned_param),
          props |-> nested_update(props, Join(cleaned_param),
                        IF Join(cleaned_param) \in expects_list /\ IsStr(value)
                        THEN ListVal(<<value>>) ELSE value)]

\* validators.py:85-120  validate_props
ValidateProps(key, value, props, lang, expects_list) ==
    ValidateCleaned(value, props, expects_list, PropertyValidator(key, lang))

TagRefMarker == <<"r", "e", "f", "!">>

RECURSIVE AddTagsLoop(_, _, _, _)

\* tags.py:26-32, with r the outcome of _handle_refs
TagResolved(tags, i, table, acc, r) ==
    IF r.error # NoError THEN [error |-> r.error, value |-> PyNone]
    ELSE AddTagsLoop(tags, i + 1, table, DictSet(acc, tags[i].k, r.value))

\* tags.py:23-33, the loop over tags.items(), from entry i on
AddTagsLoop(tags, i, table, acc) ==
    IF i > Len(tags)
    THEN [error |-> NoError, value |-> [t |-> "Tags", s |-> <<>>, items |-> acc]]
    ELSE IF IsStr(tags[i].v) /\ StartsWith(Strip(tags[i].v.s), TagRefMarker)
    THEN TagResolved(tags, i, table, acc, HandleRefs(tags[i].v.s, table))
    ELSE AddTagsLoop(tags, i + 1, table, DictSet(acc, tags[i].k, tags[i].v))

\* tags.py:8-33  add_tags: [error, value]
add_tags(name, tags, table) ==
    IF tags.t # "dict"
    THEN [error |-> AttributeError(NoItemsMsg), value |-> PyNone]
    ELSE AddTagsLoop(tags.items, 1, table,
             <<[k |-> <<"d", "e", "f", "a", "u", "l", "t", "-", "c", "f", "n", "l", "i", "t", "e", "-", "r", "e", "s", "o", "u", "r", "c", "e", "-", "n", "a", "m", "e">>, v |-> StrVal(name)]>>)

\* utils.py:160-179  clean
clean(mapping, keep_set) ==
    SelectSeq(mapping, LAMBDA entry : Lower(entry.k) \in keep_set)

\* networkacl.py:305-306  validators.resolve_refs(cleaned_property_name,
\* nat_acl, callbacks["get_symbol"]): the function takes four arguments
\* (validators.py:57-62) and is given three
NaclResolveRefs(prop_name, props, callback) ==
    [error |-> TypeError(MissingCallbackMsg), props |-> props]

RECURSIVE NaclBuildLoop(_, _, _, _, _)

\* networkacl.py:305-308, with r the outcome of resolve_refs
NaclResolved(name, props, i, st, table, r) ==
    IF r.error # NoError THEN [st EXCEPT !.error = r.error]
    ELSE NaclBuildLoop(name, props, i + 1,
             [st EXCEPT !.nat_acl = r.props,
                        !.resource_tracker = st.resource_tracker \cup {Lower(props[i].k)}],
             table)

\* networkacl.py:301-303, with t the outcome of add_tags
NaclTagged(name, props, i, st, table, cleaned_property_name, t) ==
    IF t.error # NoError THEN [st EXCEPT !.error = t.error]
    ELSE NaclResolved(name, props, i, st, table,
             NaclResolveRefs(cleaned_property_name,
                 nested_update(st.nat_acl, <<"T", "a", "g", "s">>, t.value), table))

\* networkacl.py:286-306, with v the outcome of validate_props
NaclValidated(name, props, i, st, table, v) ==
    IF v.error # NoError
    THEN [st EXCEPT !.error = ValueError(InvalidNaclAttrMsg, props[i].k)]
    ELSE IF Lower(v.name) \in {<<"e", "g", "r", "e", "s", "s">>, <<"i", "n", "g", "r", "e", "s", "s">>}
    THEN NaclBuildLoop(name, props, i + 1,
             [st EXCEPT !.nat_acl = v.props,
                        !.rule_directions = Append(st.rule_directions, Lower(v.name))],
             table)
    ELSE IF Lower(props[i].k) = <<"t", "a", "g", "s">>
    THEN NaclTagged(name, props, i, [st EXCEPT !.nat_acl = v.props], table, v.name,
             add_tags(name, props[i].v, table))
    ELSE NaclResolved(name, props, i, st, table,
             NaclResolveRefs(v.name, v.props, table))

\* networkacl.py:280-308, the loop over nat_acl_properties.items(), from
\* entry i on: [nat_acl, resource_tracker, rule_directions, error]
NaclBuildLoop(name, props, i, st, table) ==
    IF i > Len(props) THEN st
    ELSE IF Lower(props[i].k) \in st.resource_tracker
    THEN [st EXCEPT !.error = ValueError(DuplicatePropMsg, props[i].k)]
    ELSE NaclValidated(name, props, i, st, table,
             ValidateProps(props[i].k, props[i].v, st.nat_acl, NACL_LANG, NACL_EXPECTS_LIST))

\* networkacl.py:72-86  PORT_MAP, and the default of tcp_rule
PortOf(protocol) ==
    CASE protocol = <<"i", "c", "m", "p">> -> 0
      [] protocol = <<"m", "y", "s", "q", "l">> -> 3306
      [] protocol = <<"h", "t", "t", "p">> -> 80
      [] protocol = <<"h", "t", "t", "p", "s">> -> 443
      [] protocol = <<"m", "e", "m", "c", "a", "c", "h", "e", "d">> -> 11211
      [] protocol = <<"m", "o", "n", "g", "o">> -> 27017
      [] protocol = <<"n", "t", "p">> -> 123
      [] protocol = <<"p", "s", "q", "l">> -> 5432
      [] protocol = <<"r", "e", "d", "i", "s">> -> 6379
      [] protocol = <<"s", "m", "t", "p">> -> 25
      [] protocol = <<"s", "s", "h">> -> 22
      [] OTHER -> 80

\* networkacl.py:157-197  tcp_rule and icmp_rule, as nat_rules completes
\* them (networkacl.py:225-226)
NaclEntryProps(protocol, egress, nat_acl) ==
    IF Lower(protocol) = <<"i", "c", "m", "p">>
    THEN << [k |-> <<"C", "i", "d", "r", "B", "l", "o", "c", "k">>, v |-> StrVal(<<"0", ".", "0", ".", "0", ".", "0", "/", "0">>)],
            [k |-> <<"E", "g", "r", "e", "s", "s">>, v |-> BoolVal(egress)],
            [k |-> <<"I", "c", "m", "p">>, v |-> DictVal(<<[k |-> <<"C", "o", "d", "e">>, v |-> IntVal(0)],
                                            [k |-> <<"T", "y", "p", "e">>, v |-> IntVal(IF egress THEN 0 ELSE 8)]>>)],
            [k |-> <<"N", "e", "t", "w", "o", "r", "k", "A", "c", "l", "I", "d">>, v |-> nat_acl],
            [k |-> <<"P", "r", "o", "t", "o", "c", "o", "l">>, v |-> IntVal(1)],
            [k |-> <<"R", "u", "l", "e", "A", "c", "t", "i", "o", "n">>, v |-> StrVal(<<"a", "l", "l", "o", "w">>)],
            [k |-> <<"R", "u", "l", "e", "N", "u", "m", "b", "e", "r">>, v |-> IntVal(100)] >>
    ELSE << [k |-> <<"C", "i", "d", "r", "B", "l", "o", "c", "k">>, v |-> StrVal(<<"0", ".", "0", ".", "0", ".", "0", "/", "0">>)],
            [k |-> <<"E", "g", "r", "e", "s", "s">>, v |-> BoolVal(egress)],
            [k |-> <<"N", "e", "t", "w", "o", "r", "k", "A", "c", "l", "I", "d">>, v |-> nat_acl],
            [k |-> <<"P", "o", "r", "t", "R", "a", "n", "g", "e">>, v |-> DictVal(<<[k |-> <<"F", "r", "o", "m">>, v |-> IntVal(PortOf(protocol))],
                                                 [k |-> <<"T", "o">>, v |-> IntVal(PortOf(protocol))]>>)],
            [k |-> <<"P", "r", "o", "t", "o", "c", "o", "l">>, v |-> IntVal(6)],
            [k |-> <<"R", "u", "l", "e", "A", "c", "t", "i", "o", "n">>, v |-> StrVal(<<"a", "l", "l", "o", "w">>)],
            [k |-> <<"R", "u", "l", "e", "N", "u", "m", "b", "e", "r">>, v |-> IntVal(PortOf(protocol))] >>

\* networkacl.py:229  the title of a rule
RuleTitle(name, protocol, egress) ==
    name \o <<"R", "u", "l", "e">> \o Upper(protocol) \o (IF egress THEN <<"O", "u", "t">> ELSE <<"I", "n">>)

RECURSIVE NatRulesLoop(_, _, _, _, _, _)

\* networkacl.py:232  callbacks["add_resource"](rule), with r its outcome
RuleAdded(name, protocols, j, egress, nat_acl, out, r) ==
    IF r.error # NoError THEN [out EXCEPT !.error = r.error]
    ELSE NatRulesLoop(name, protocols, j + 1, egress, nat_acl,
             [out EXCEPT !.template = r.template])

\* networkacl.py:215-232, the loop over protocols, from protocol j on
NatRulesLoop(name, protocols, j, egress, nat_acl, out) ==
    IF j > Len(protocols) THEN out
    ELSE IF ~IsAlnum(RuleTitle(name, protocols[j].s, egress))
    THEN [out EXCEPT !.error =
             ValueError(NotAlnumMsg, RuleTitle(name, protocols[j].s, egress))]
    ELSE RuleAdded(name, protocols, j, egress, nat_acl, out,
             add_resource(out.template,
                 Artifact("NetworkAclEntry", RuleTitle(name, protocols[j].s, egress),
                          NaclEntryProps(protocols[j].s, egress, nat_acl))))

\* networkacl.py:213  Ref(callbacks["get_symbol"]("networkacl")), with sym
\* what the callback returned or raised
NatRulesWith(name, protocols, egress, out, sym) ==
    IF sym.error # NoError
    THEN [out EXCEPT !.error = sym.error,
                     !.calls = Append(out.calls, Lookup(<<"n", "e", "t", "w", "o", "r", "k", "a", "c", "l">>, "rule", sym, out.added))]
    ELSE NatRulesLoop(name, protocols, 1, egress, RefVal(sym.value),
             [out EXCEPT !.calls = Append(out.calls, Lookup(<<"n", "e", "t", "w", "o", "r", "k", "a", "c", "l">>, "rule", sym, out.added))])

\* networkacl.py:200-232  nat_rules
nat_rules(name, protocols, egress, out) ==
    NatRulesWith(name, protocols, egress, out, get_symbol(out.table, <<"n", "e", "t", "w", "o", "r", "k", "a", "c", "l">>))

\* networkacl.py:322-325  a string stands for a list of one protocol
ProtocolList(protos) == IF IsStr(protos) THEN <<protos>> ELSE protos.items

RECURSIVE NaclRulesLoop(_, _, _, _, _)

\* networkacl.py:319-332, the loop over rule_directions, from direction d
\* on: [error, template, table, added, calls]
NaclRulesLoop(name, props, rule_directions, d, out) ==
    IF d > Len(rule_directions) \/ out.error # NoError THEN out
    ELSE IF ~DictHas(props, rule_directions[d])
    THEN [out EXCEPT !.error = KeyError(rule_directions[d])]
    ELSE NaclRulesLoop(name, props, rule_directions, d + 1,
             nat_rules(name, ProtocolList(DictGet(props, rule_directions[d])),
                       rule_directions[d] = <<"e", "g", "r", "e", "s", "s">>, out))

\* networkacl.py:315-317  callbacks["add_resource"](new_nat_acl), with r its
\* outcome, then callbacks["add_symbol"]("networkacl", new_nat_acl)
NaclAdded(name, props, st, out, new_nat_acl, r) ==
    IF r.error # NoError THEN [out EXCEPT !.error = r.error]
    ELSE NaclRulesLoop(name, props, st.rule_directions, 1,
             [out EXCEPT !.template = r.template,
                         !.table = add_symbol(out.table, <<"n", "e", "t", "w", "o", "r", "k", "a", "c", "l">>, new_nat_acl),
                         !.added = Append(out.added, <<"n", "e", "t", "w", "o", "r", "k", "a", "c", "l">>)])

\* networkacl.py:310-312  troposphere.ec2.NetworkAcl(name, **cleaned_nat_acl)
NaclConstructed(name, props, st, out, new_nat_acl) ==
    IF ~IsAlnum(name) THEN [out EXCEPT !.error = ValueError(NotAlnumMsg, name)]
    ELSE NaclAdded(name, props, st, out, new_nat_acl,
                   add_resource(out.template, new_nat_acl))

\* networkacl.py:310-332, with st the outcome of the loop over the properties
NaclFinish(name, props, st, out) ==
    IF st.error # NoError THEN [out EXCEPT !.error = st.error]
    ELSE NaclConstructed(name, props, st, out,
             Artifact("NetworkAcl", name,
                      clean(st.nat_acl, st.resource_tracker \cup NAT_ACL_DEFAULTS)))

\* networkacl.py:236-332  build: [error, template, table, added, calls]
NaclBuild(name, props, template, table, sofar) ==
    NaclFinish(name, props,
        NaclBuildLoop(name, props, 1,
            [nat_acl |-> DefaultNatAcl, resource_tracker |-> {},
             rule_directions |-> <<>>, error |-> NoError],
            table),
        [error |-> NoError, template |-> template, table |-> table,
         added |-> sofar, calls |-> <<>>])

-----------------------------------------------------------------------------
(* A direct call of networkacl.build, as in tests/test_network_acl.py *)

\* the name given to build (test_network_acl.py:45)
NaclTestName == <<"t", "e", "s", "t", "N", "A", "C", "L">>

\* the most properties of the property map given to build
MaxAclProps == 2

\* the properties given to build: rules in both directions and in several
\* spellings, properties of the network ACL, tags, and keys that are none
NaclTestProperties ==
    << [k |-> <<"i", "n", "g", "r", "e", "s", "s">>, v |-> ListVal(<<StrVal(<<"h", "t", "t", "p">>)>>)],
       [k |-> <<"e", "g", "r", "e", "s", "s">>,  v |-> ListVal(<<StrVal(<<"h", "t", "t", "p">>)>>)],
       [k |-> <<"I", "N", "G", "R", "E", "S", "S">>, v |-> StrVal(<<"s", "s", "h">>)],
       [k |-> <<"E", "g", "r", "e", "s", "s">>,  v |-> ListVal(<<>>)],
       [k |-> <<"I", "n", "g", "r", "e", "s", "s">>, v |-> StrVal(<<"h", "t", "t", "p", " ", "h", "t", "t", "p", "s">>)],
       [k |-> <<"E", "G", "R", "E", "S", "S">>,  v |-> ListVal(<<StrVal(<<"i", "c", "m", "p">>), StrVal(<<"i", "c", "m", "p">>)>>)],
       [k |-> <<"V", "p", "c", "I", "d">>,   v |-> StrVal(<<"v", "p", "c", "-", "1">>)],
       [k |-> <<"v", "p", "c", "i", "d">>,   v |-> StrVal(<<"r", "e", "f", " ", "s", "e", "c", "u", "r", "i", "t", "y", "g", "r", "o", "u", "p", "s">>)],
       [k |-> <<"T", "a", "g", "s">>,    v |-> DictVal(<<[k |-> <<"N", "a", "m", "e">>, v |-> StrVal(<<"x">>)]>>)],
       [k |-> <<"t", "a", "g", "s">>,    v |-> StrVal(<<"x">>)],
       [k |-> <<"b", "o", "g", "u", "s">>,   v |-> StrVal(<<"x">>)],
       [k |-> <<"r", "u", "l", "e", "-", "1">>,  v |-> StrVal(<<"x">>)] >>

\* the rules a raw key written in lower case can hold
NaclRuleValues ==
    { ListVal(<<StrVal(<<"h", "t", "t", "p">>)>>), StrVal(<<"h", "t", "t", "p", " ", "h", "t", "t", "p", "s">>),
      ListVal(<<StrVal(<<"i", "c", "m", "p">>), StrVal(<<"i", "c", "m", "p">>)>>), ListVal(<<>>) }

InitNacl ==
    /\ docName = <<>> /\ invoked = <<>> /\ ppc = "idle"
    /\ resources = <<>> /\ graph = <<>> /\ order = <<>> /\ dpc = "idle"
    /\ vkey = <<>> /\ vchoices = <<>> /\ vresult = <<>> /\ vpc = "idle"
    /\ nroot = <<>> /\ nkey = <<>> /\ nvalue = StrVal(<<>>) /\ nfound = StrVal(<<>>)
    /\ nupdated = <<>> /\ npc = "idle"
    /\ eprops = <<>> /\ epc = "idle"
    /\ args = NoArgs /\ emitted = <<>>
    /\ bstack = <<>> /\ bmemo = <<>> /\ bmatches = <<>> /\ bret = "none"
    /\ \E m \in 0..MaxAclProps :
       \E ps \in [1..m -> 1..Len(NaclTestProperties)], vs \in [1..m -> NaclRuleValues] :
          /\ Injective(ps)
          /\ \A i \in 1..m : NaclTestProperties[ps[i]].k \notin {<<"i", "n", "g", "r", "e", "s", "s">>, <<"e", "g", "r", "e", "s", "s">>}
                                => vs[i] = ListVal(<<>>)
          /\ aclprops = [i \in 1..m |->
                            IF NaclTestProperties[ps[i]].k \in {<<"i", "n", "g", "r", "e", "s", "s">>, <<"e", "g", "r", "e", "s", "s">>}
                            THEN [k |-> NaclTestProperties[ps[i]].k, v |-> vs[i]]
                            ELSE NaclTestProperties[ps[i]]]
    /\ SYMBOL_TABLE \in SymbolTables
    /\ TEMPLATE = <<>>
    /\ calls = <<>>
    /\ added = <<>>
    /\ error = NoError
    /\ aclpc = "args"

\* the outcome of the call: what the callbacks did, and the exception
NaclCalled(out) ==
    /\ calls' = out.calls
    /\ TEMPLATE' = out.template
    /\ SYMBOL_TABLE' = out.table
    /\ added' = out.added
    /\ error' = out.error
    /\ aclpc' = IF out.error = NoError THEN "built" ELSE "raised"

\* cfnlite.networkacl.build("testNACL", callbacks, aclprops)
CallNaclBuild ==
    /\ aclpc = "args"
    /\ NaclCalled(NaclBuild(NaclTestName, aclprops, TEMPLATE, SYMBOL_TABLE, added))
    /\ UNCHANGED <<resources, graph, order, dpc, utilsVars, nestedVars, ec2Vars,
                   mainVars, backtrackVars, docName, invoked, ppc, aclprops>>

NextNacl == CallNaclBuild

SpecNacl == InitNacl /\ [][NextNacl]_vars

-----------------------------------------------------------------------------
(* Claims about the errors of a builder, checked under SpecNacl *)

\* the call of networkacl.build has been made
NaclDone == aclpc \in {"built", "raised"}

\* the raw keys that decompose against the vocabulary of the kind
NaclAccepts(key) == PropertyValidator(key, NACL_LANG) # <<>>

\* C23: whenever two keys of the raw property map are equal
\* case-insensitively, the builder raises a ValueError naming the second
\* key as it is written, for every property the kind accepts.  (Violated:
\* the keys egress and ingress are never tracked, and for the other
\* properties the call of resolve_refs fails on the first key.)
C23_DuplicateRaises ==
    (NaclDone /\ Len(aclprops) = 2
        /\ Lower(aclprops[1].k) = Lower(aclprops[2].k) /\ NaclAccepts(aclprops[1].k))
        => error = ValueError(DuplicatePropMsg, aclprops[2].k)

\* C25: whenever a raw key does not decompose against the vocabulary of
\* the kind, the builder raises a ValueError naming that key as it is
\* written and the kind.  (Violated: an accepted property before the key
\* ends the build with another kind of error.)
C25_InvalidKeyNamed ==
    (NaclDone /\ \E i \in 1..Len(aclprops) : ~NaclAccepts(aclprops[i].k))
        => /\ error.type = "ValueError"
           /\ error.msg = InvalidNaclAttrMsg
           /\ error.arg \in {aclprops[i].k : i \in {j \in 1..Len(aclprops) : ~NaclAccepts(aclprops[j].k)}}

\* C28: a builder that raises has called neither add_resource nor
\* add_symbol: the output document and the symbol table are as they were
\* before the call.  (Violated: the rules of a network ACL are built after
\* the network ACL was added and registered.)
C28_RaisingBuilderAddsNothing ==
    [][(CallNaclBuild /\ error' # NoError)
          => (TEMPLATE' = TEMPLATE /\ SYMBOL_TABLE' = SYMBOL_TABLE /\ added' = added)]_vars

-----------------------------------------------------------------------------
(* Claims about the end of a compilation run, checked under SpecParse *)

\* C24: after the first error of a run, raised by the name test, the
\* symbol-table initialisation, the graph building, the sorting or a
\* builder, no further builder is invoked and main neither prints nor
\* writes the template.
C24_FirstErrorEndsTheRun ==
    /\ [](error # NoError => emitted = <<>>)
    /\ [][error # NoError => (invoked' = invoked /\ emitted' = emitted)]_vars

\* a builder raised while another resource was still to be built, in a run
\* asked to print the template
C24_Witness ==
    /\ ppc = "raised"
    /\ error # NoError
    /\ invoked # <<>>
    /\ Len(invoked) < Len(order)
    /\ args.dry_run

-----------------------------------------------------------------------------
(* Claims about dep_graph followed by topological_sort, checked under
   SpecDeps *)

\* topological_sort was called on the graph dep_graph returned
SortedDepGraph == resources # <<>> /\ AfterSort

\* C26: whenever dep_graph returns normally, topological_sort of the graph
\* it returned returns normally as well, and the returned list holds every
\* declared resource name exactly once.
C26_SortOfDepGraph ==
    SortedDepGraph
        => /\ dpc = "sorted"
           /\ Len(order) = Len(resources)
           /\ \A r \in 1..Len(resources) : Count(order, resources[r].k) = 1

\* C26 happens: ec2 refers to s3 and to sg, s3 refers to sg; the sort gives
\* sg, s3, ec2
C26_Witness ==
    /\ dpc = "sorted"
    /\ Len(resources) = 3
    /\ RefRelation(resources) = {<<EC2, S3>>, <<EC2, SG>>, <<S3, SG>>}
    /\ order = <<SG, S3, EC2>>

\* C27: dep_graph raises no cycle error when the scalar-reference relation
\* among the declared resources is acyclic, also when a resource is reached
\* along two paths or from several resources.
C27_AcyclicNeverCycleError ==
    (AfterDepGraph /\ ~HasCycle(RefRelation(resources)))
        => error # ValueError(CycleMsg, <<>>)

-----------------------------------------------------------------------------
(* Claims about the memo of property_validator, checked under SpecUtils *)

\* C29: for every non-empty key whose lower-cased form is a concatenation of
\* lower-cased words of the vocabulary, property_validator returns a
\* non-empty list: a suffix memoised as failed never hides a decomposition.
C29_DecomposableKeyIsSpelt ==
    (vpc = "validated" /\ vkey # <<>> /\ Decomposable(Lower(vkey), LangOf(vchoices)))
        => vresult # <<>>

\* C29 happens: for "noos" the words N and O lead to the suffix "os", which
\* fails and is memoised; No leads to "os" again; Noos spells the key.
C29_Witness ==
    /\ vpc = "validated"
    /\ vkey = <<"n", "o", "o", "s">>
    /\ vchoices = << <<"N">>, <<"O">>, <<"N", "o">>, <<"N", "o", "o", "s">> >>
    /\ vresult = << <<"N", "o", "o", "s">> >>

-----------------------------------------------------------------------------
(* lib/utils.py: property_validator, one step of backtrack at a time.  A
   call of backtrack in progress is a frame of bstack: its argument s and the
   index i of the word of lang its loop is at; bret is what the call that
   ended last returned, "none" while a loop is about to try a word. *)

\* utils.py:79, a slip: the loop does not move on to the next word
SameWord(i) == i

\* utils.py:79, the loop moves on to the next word of lang
NextWord(i) == i + 1

\* utils.py:83, s[len(word):]
Remainder(s, word) == SubSeq(s, Len(word) + 1, Len(s))

\* utils.py:72-76, backtrack is called with s: a memoised s and the empty s
\* return at once, any other s starts a loop over lang
Entered(s, stack, memo) ==
    IF s \in DOMAIN memo
    THEN [stack |-> stack, ret |-> IF memo[s] THEN "True" ELSE "False"]
    ELSE IF s = <<>>
    THEN [stack |-> stack, ret |-> "True"]
    ELSE [stack |-> Append(stack, [s |-> s, i |-> 1]), ret |-> "none"]

\* the call of backtrack that is running, and the calls that wait for it
TopFrame == bstack[Len(bstack)]
Callers == SubSeq(bstack, 1, Len(bstack) - 1)

\* the running call with its loop moved on to the next word
Continued == [bstack EXCEPT ![Len(bstack)].i = NextWord(TopFrame.i)]

\* keys and vocabularies of the step-by-step run: every word is a non-empty
\* string, as the words create_lang produces are (utils.py:222-231)
InitBacktrack ==
    /\ docName = <<>> /\ SYMBOL_TABLE = <<>> /\ TEMPLATE = <<>> /\ invoked = <<>>
    /\ calls = <<>> /\ added = <<>> /\ ppc = "idle"
    /\ nroot = <<>> /\ nkey = <<>> /\ nvalue = StrVal(<<>>) /\ nfound = StrVal(<<>>)
    /\ nupdated = <<>> /\ npc = "idle"
    /\ eprops = <<>> /\ epc = "idle"
    /\ aclprops = <<>> /\ aclpc = "idle"
    /\ args = NoArgs /\ emitted = <<>>
    /\ resources = <<>> /\ graph = <<>> /\ order = <<>> /\ error = NoError /\ dpc = "idle"
    /\ bstack = <<>> /\ bmemo = EmptyMemo /\ bmatches = <<>> /\ bret = "none"
    /\ vpc = "key"
    /\ \E n \in 0..MaxKeyLen : vkey \in [1..n -> KeyChars]
    /\ vchoices \in Vocabularies
    /\ vresult = <<>>

\* utils.py:56-60 and utils.py:96, backtrack(property.lower(), memo)
CallBacktrack ==
    /\ vpc = "key"
    /\ bstack' = Entered(Lower(vkey), <<>>, EmptyMemo).stack
    /\ bret' = Entered(Lower(vkey), <<>>, EmptyMemo).ret
    /\ bmemo' = EmptyMemo
    /\ bmatches' = <<>>
    /\ vpc' = "running"
    /\ UNCHANGED <<vkey, vchoices, vresult, depsVars, parseVars, nestedVars, ec2Vars,
                   naclVars, mainVars>>

\* utils.py:81-87, s does not start with the word: the match is False
\* without a call, and the loop continues
WordDiffers ==
    /\ vpc = "running" /\ bstack # <<>> /\ bret = "none"
    /\ TopFrame.i <= Len(LangOf(vchoices))
    /\ ~StartsWith(TopFrame.s, Lower(LangOf(vchoices)[TopFrame.i]))
    /\ bstack' = Continued
    /\ UNCHANGED <<bmemo, bmatches, bret, utilsVars, depsVars, parseVars, nestedVars,
                   ec2Vars, naclVars, mainVars>>

\* utils.py:81-84, s starts with the word: backtrack is called with what
\* is left of s after it
WordIsPrefix ==
    /\ vpc = "running" /\ bstack # <<>> /\ bret = "none"
    /\ TopFrame.i <= Len(LangOf(vchoices))
    /\ StartsWith(TopFrame.s, Lower(LangOf(vchoices)[TopFrame.i]))
    /\ bstack' = Entered(Remainder(TopFrame.s, LangOf(vchoices)[TopFrame.i]),
                         bstack, bmemo).stack
    /\ bret' = Entered(Remainder(TopFrame.s, LangOf(vchoices)[TopFrame.i]),
                       bstack, bmemo).ret
    /\ UNCHANGED <<bmemo, bmatches, utilsVars, depsVars, parseVars, nestedVars,
                   ec2Vars, naclVars, mainVars>>

\* utils.py:86-87, the call returned False: the loop continues
RemainderFailed ==
    /\ vpc = "running" /\ bstack # <<>> /\ bret = "False"
    /\ bstack' = Continued
    /\ bret' = "none"
    /\ UNCHANGED <<bmemo, bmatches, utilsVars, depsVars, parseVars, nestedVars,
                   ec2Vars, naclVars, mainVars>>

\* utils.py:89-94, the call returned True: the word is a match, the loop
\* breaks and s is memoised as True
RemainderMatched ==
    /\ vpc = "running" /\ bstack # <<>> /\ bret = "True"
    /\ bmatches' = Append(bmatches, LangOf(vchoices)[TopFrame.i])
    /\ bmemo' = (TopFrame.s :> TRUE) @@ bmemo
    /\ bstack' = Callers
    /\ UNCHANGED <<bret, utilsVars, depsVars, parseVars, nestedVars, ec2Vars,
                   naclVars, mainVars>>

\* utils.py:79 and utils.py:93-94, no word is left: s is memoised as False
LangExhausted ==
    /\ vpc = "running" /\ bstack # <<>> /\ bret = "none"
    /\ TopFrame.i > Len(LangOf(vchoices))
    /\ bmemo' = (TopFrame.s :> FALSE) @@ bmemo
    /\ bstack' = Callers
    /\ bret' = "False"
    /\ UNCHANGED <<bmatches, utilsVars, depsVars, parseVars, nestedVars, ec2Vars,
                   naclVars, mainVars>>

\* utils.py:97, the outermost call has returned: return matches[::-1]
ReturnMatches ==
    /\ vpc = "running" /\ bstack = <<>> /\ bret # "none"
    /\ vresult' = Reverse(bmatches)
    /\ vpc' = "validated"
    /\ UNCHANGED <<vkey, vchoices, backtrackVars, depsVars, parseVars, nestedVars,
                   ec2Vars, naclVars, mainVars>>

NextBacktrack ==
    \/ CallBacktrack
    \/ WordDiffers
    \/ WordIsPrefix
    \/ RemainderFailed
    \/ RemainderMatched
    \/ LangExhausted
    \/ ReturnMatches

SpecBacktrack == InitBacktrack /\ [][NextBacktrack]_vars

\* property_validator is one synchronous call on one thread (utils.py:96-97):
\* while a step of it is possible, a step is taken
SpecBacktrackFair == SpecBacktrack /\ WF_vars(NextBacktrack)

\* the step-by-step run returns what PropertyValidator computes
StepsAgreeWithPropertyValidator ==
    vpc = "validated" => vresult = PropertyValidator(vkey, vchoices)

\* the remainders of the calls in progress get strictly shorter up the stack
RemaindersShrink ==
    \A k \in 1..Len(bstack) - 1 : Len(bstack[k + 1].s) < Len(bstack[k].s)

\* C30: property_validator terminates for every key and every vocabulary
\* whose words are all non-empty strings: every run of it, step by step,
\* reaches the return of utils.py:97
C30_PropertyValidatorTerminates == <>(vpc = "validated")

\* a run that has returned after a word's remainder had failed and the
\* failure had been read back from memo
C30_Witness ==
    /\ vpc = "validated"
    /\ vkey = <<"n", "o", "o", "s">>
    /\ vresult = << <<"N", "o", "o", "s">> >>
    /\ bstack = <<>>
    /\ <<"s">> \in DOMAIN bmemo /\ ~bmemo[<<"s">>]

=============================================================================
